---- MODULE Spec2Model ----
(***************************************************************************)
(* bashistdb: the encrypted request/reply protocol (package network) and   *)
(* the history store (package database), as state machines.                *)
(*                                                                         *)
(* Byte strings are sequences of naturals.  Go strings that travel in a    *)
(* Message are kept as TLA+ strings and are coded through StrTab when they *)
(* are serialised.  A history text is a sequence of line codes (one        *)
(* natural per '\n'-terminated line) and the reply texts are sequences of  *)
(* naturals too, so every Payload is a byte string of the same kind.       *)
(***************************************************************************)
EXTENDS Integers, Sequences, FiniteSets, TLC

(***************************************************************************)
(* Bounds of the model.                                                    *)
(***************************************************************************)
MaxPayload == 2   \* longest Payload drawn for the codec
MaxConns == 2     \* connections the server accepts
MaxLines == 2     \* longest history text drawn for an import
MaxConnlog == 2   \* connlog rows of a file the process starts on
MaxBoots == 2     \* times the process is started on the same file
MaxRows == 2      \* rows of table history when it is queried

(***************************************************************************)
(* Message types, part_001:38-44.                                          *)
(***************************************************************************)
RESULT == "result"
HISTORY == "history"
STATS == "stats"
QUERY == "query"

\* conf.QueryParams as used at part_001:171,175,188 (zero value: all zero).
ZeroQParams == [User |-> "", Host |-> "", Command |-> "", Kappa |-> 0]

\* Message{} : the zero Message, part_001:46-52.
ZeroMessage ==
  [Type |-> "", Payload |-> <<>>, User |-> "", Hostname |-> "", QParams |-> ZeroQParams]

Message(t, p, u, h, q) ==
  [Type |-> t, Payload |-> p, User |-> u, Hostname |-> h, QParams |-> q]

(***************************************************************************)
(* Envelope codec.                                                         *)
(*   msg -> [GOB] -> [ENCRYPT] -> [GOB] -> (dispatch)      part_001:198-229 *)
(*   (receive) -> [de-GOB] -> [DECRYPT] -> [de-GOB] -> msg part_001:231-257 *)
(***************************************************************************)

\* The strings that occur in messages; a string is serialised as its index.
StrTab == <<"result", "history", "stats", "query", "bogus", "u1", "u2", "h1", "%">>

StrCode(s) == IF s = "" THEN 0 ELSE CHOOSE i \in 1..Len(StrTab) : StrTab[i] = s

CodeStr(n) == IF n = 0 THEN "" ELSE StrTab[n]

\* gob: a field holding the zero value of its type is not transmitted;
\* a transmitted field is its field number followed by its value.
GobString(f, s) == IF s = "" THEN <<>> ELSE <<f, StrCode(s)>>

GobInt(f, n) == IF n = 0 THEN <<>> ELSE <<f, n>>

GobBytes(f, b) == IF Len(b) = 0 THEN <<>> ELSE <<f, Len(b)>> \o b

\* A struct is its transmitted fields followed by the terminator 0.
GobQParams(q) ==
  GobString(1, q.User) \o GobString(2, q.Host) \o GobString(3, q.Command)
    \o GobInt(4, q.Kappa) \o <<0>>

\* enc.Encode(m), part_001:212-215.
GobEncodeMessage(m) ==
  GobString(1, m.Type) \o GobBytes(2, m.Payload) \o GobString(3, m.User)
    \o GobString(4, m.Hostname) \o <<5>> \o GobQParams(m.QParams) \o <<0>>

\* Decoding of the QParams struct starting at position i of s.
\* Result: [ok, q, next].
RECURSIVE GobDecodeQParams(_, _, _)
GobDecodeQParams(s, i, q) ==
  IF i > Len(s) THEN [ok |-> FALSE, q |-> q, next |-> i]
  ELSE IF s[i] = 0 THEN [ok |-> TRUE, q |-> q, next |-> i + 1]
  ELSE IF i + 1 > Len(s) THEN [ok |-> FALSE, q |-> q, next |-> i]
  ELSE IF s[i] \in {1, 2, 3}
    THEN IF s[i + 1] \notin 1..Len(StrTab)
           THEN [ok |-> FALSE, q |-> q, next |-> i]
           ELSE GobDecodeQParams(s, i + 2,
                  CASE s[i] = 1 -> [q EXCEPT !.User = CodeStr(s[i + 1])]
                    [] s[i] = 2 -> [q EXCEPT !.Host = CodeStr(s[i + 1])]
                    [] s[i] = 3 -> [q EXCEPT !.Command = CodeStr(s[i + 1])])
  ELSE IF s[i] = 4 THEN GobDecodeQParams(s, i + 2, [q EXCEPT !.Kappa = s[i + 1]])
  ELSE [ok |-> FALSE, q |-> q, next |-> i]

\* Decoding of the Message struct starting at position i of s into m;
\* fields that are not transmitted keep the value m already has.
\* Result: [ok, m, next].
RECURSIVE GobDecodeFields(_, _, _)
GobDecodeFields(s, i, m) ==
  IF i > Len(s) THEN [ok |-> FALSE, m |-> m, next |-> i]
  ELSE IF s[i] = 0 THEN [ok |-> TRUE, m |-> m, next |-> i + 1]
  ELSE IF s[i] = 5
    THEN LET r == GobDecodeQParams(s, i + 1, m.QParams)
         IN  IF r.ok THEN GobDecodeFields(s, r.next, [m EXCEPT !.QParams = r.q])
             ELSE [ok |-> FALSE, m |-> [m EXCEPT !.QParams = r.q], next |-> r.next]
  ELSE IF i + 1 > Len(s) THEN [ok |-> FALSE, m |-> m, next |-> i]
  ELSE IF s[i] \in {1, 3, 4}
    THEN IF s[i + 1] \notin 1..Len(StrTab)
           THEN [ok |-> FALSE, m |-> m, next |-> i]
           ELSE GobDecodeFields(s, i + 2,
                  CASE s[i] = 1 -> [m EXCEPT !.Type = CodeStr(s[i + 1])]
                    [] s[i] = 3 -> [m EXCEPT !.User = CodeStr(s[i + 1])]
                    [] s[i] = 4 -> [m EXCEPT !.Hostname = CodeStr(s[i + 1])])
  ELSE IF s[i] = 2
    THEN IF i + 1 + s[i + 1] > Len(s)
           THEN [ok |-> FALSE, m |-> m, next |-> i]
           ELSE GobDecodeFields(s, i + 2 + s[i + 1],
                  [m EXCEPT !.Payload = SubSeq(s, i + 2, i + 1 + s[i + 1])])
  ELSE [ok |-> FALSE, m |-> m, next |-> i]

\* dec.Decode(msg) into msg := new(Message), part_001:250-254: the whole
\* plaintext must be one Message value.
GobDecodeMessage(s) ==
  LET r == GobDecodeFields(s, 1, ZeroMessage)
  IN  [ok |-> r.ok /\ r.next = Len(s) + 1, m |-> r.m]

\* saltsecret: a salted key stream and an authenticator over the salt and
\* the ciphertext, keyed by the shared key.
KeyStream(key, salt, i) == key + salt + i

Authenticator(key, salt, cipher) == <<key, salt>> \o cipher

\* saltsecret.NewWriter(..., ENCRYPT, ...) + Flush, part_001:206-220.
Seal(plain, key, salt) ==
  LET cipher == [i \in 1..Len(plain) |-> plain[i] + KeyStream(key, salt, i)]
  IN  [salt |-> salt, tag |-> Authenticator(key, salt, cipher), cipher |-> cipher]

\* saltsecret.NewReader(..., DECRYPT, ...) + Read, part_001:243-247.
Open(box, key) ==
  IF box.tag # Authenticator(key, box.salt, box.cipher)
    THEN [ok |-> FALSE, plain |-> <<>>]
    ELSE [ok |-> TRUE,
          plain |-> [i \in 1..Len(box.cipher) |->
                       box.cipher[i] - KeyStream(key, box.salt, i)]]

\* dispatch.Encode(encMsg.Bytes()), part_001:223-226: the length-prefixed blob.
FrameOf(box) ==
  [len |-> Len(box.cipher), salt |-> box.salt, tag |-> box.tag, cipher |-> box.cipher]

\* The variant of encryptDispatch that dispatches without encrypter.Flush():
\* nothing has been encrypted yet.
EncodeFrameNoFlush(m, key, salt) == FrameOf(Seal(<<>>, key, salt))

\* encryptDispatch(conn, m) with conf.Key = key: the frame put on the wire.
EncodeFrame(m, key, salt) == FrameOf(Seal(GobEncodeMessage(m), key, salt))

\* receive.Decode(encMsg), part_001:236-240: the blob of the first frame of
\* the stream; an empty stream or a blob shorter than announced is an error.
ReceiveBlob(stream) ==
  IF Len(stream) = 0 THEN [ok |-> FALSE, box |-> <<>>]
  ELSE LET f == stream[1]
       IN  IF f.len > Len(f.cipher) THEN [ok |-> FALSE, box |-> <<>>]
           ELSE [ok |-> TRUE,
                 box |-> [salt |-> f.salt, tag |-> f.tag,
                          cipher |-> SubSeq(f.cipher, 1, f.len)]]

\* The variant of receiveDecrypt that hands back what was decoded so far.
ReceiveDecryptPartial(stream, key) ==
  LET b == ReceiveBlob(stream)
  IN  IF ~b.ok THEN [msg |-> ZeroMessage, err |-> "transport"]
      ELSE LET plain == [i \in 1..Len(b.box.cipher) |->
                           b.box.cipher[i] - KeyStream(key, b.box.salt, i)]
               d == GobDecodeFields(plain, 1, ZeroMessage)
           IN  IF Open(b.box, key).ok /\ GobDecodeMessage(plain).ok
                 THEN [msg |-> d.m, err |-> "nil"]
                 ELSE [msg |-> d.m, err |-> "integrity"]

\* receiveDecrypt(conn) with conf.Key = key, part_001:231-257.
\* Result: [msg, err]; every error path returns Message{}.
ReceiveDecrypt(stream, key) ==
  LET b == ReceiveBlob(stream)
  IN  IF ~b.ok THEN [msg |-> ZeroMessage, err |-> "transport"]
      ELSE LET o == Open(b.box, key)
           IN  IF ~o.ok THEN [msg |-> ZeroMessage, err |-> "integrity"]
               ELSE LET d == GobDecodeMessage(o.plain)
                    IN  IF ~d.ok THEN [msg |-> ZeroMessage, err |-> "malformed"]
                        ELSE [msg |-> d.m, err |-> "nil"]

(***************************************************************************)
(* History store, database.go.                                             *)
(***************************************************************************)

\* What parseLine (database.go:182) and time.Parse (database.go:205) make of
\* each line of a history text.  Lines 1..4 end in '\n'; lines 5 and 6 are a last
\* line that lacks its '\n' (ReadString returns it together with io.EOF).
\*   1  "    1  2015-06-01T10:00:01+0300 ls"        well formed
\*   2  "    2* 2015-06-01T10:00:02+0300 make"      well formed
\*   3  "#1433142001"                               does not match
\*   4  "    4  9999-99-99T99:99:99+9999 ls"        matches, stamp unparsable
\*   5  "    5  2015-06-01T10:00:02+0300 ls"        well formed, no '\n'
\*   6  "    6  9999-99-99T99:99:99+9999 make"      stamp unparsable, no '\n'
LineTab ==
  <<[eof |-> FALSE, match |-> TRUE, stamp |-> TRUE, datetime |-> 1, command |-> 1],
    [eof |-> FALSE, match |-> TRUE, stamp |-> TRUE, datetime |-> 2, command |-> 2],
    [eof |-> FALSE, match |-> FALSE, stamp |-> FALSE, datetime |-> 0, command |-> 0],
    [eof |-> FALSE, match |-> TRUE, stamp |-> FALSE, datetime |-> 0, command |-> 1],
    [eof |-> TRUE, match |-> TRUE, stamp |-> TRUE, datetime |-> 2, command |-> 1],
    [eof |-> TRUE, match |-> TRUE, stamp |-> FALSE, datetime |-> 0, command |-> 2]>>

\* PRIMARY KEY (user, command, datetime), database.go:118.
SameKey(r1, r2) ==
  r1.user = r2.user /\ r1.command = r2.command /\ r1.datetime = r2.datetime

Row(user, host, line) ==
  [user |-> user, host |-> host, command |-> line.command, datetime |-> line.datetime]

\* The variant of the duplicate branch that forgets failed++.
DuplicateUncounted(failed) == failed

\* "Duplicate entry. Ignoring." : failed++, database.go:217-219.
DuplicateIgnored(failed) == failed + 1

\* The loop of AddFromBuffer from its i-th read on, database.go:186-228.
\* st = [rows, total, failed]: the table as the transaction sees it and the
\* two counters.  Result: [rows, total, failed, err, tx].
RECURSIVE AddLoop(_, _, _, _, _, _)
AddLoop(table, text, i, user, host, st) ==
  LET total == st.total + 1     \* total++ after every ReadString
  IN
  IF i > Len(text) \/ LineTab[text[i]].eof
    THEN \* io.EOF: break, then tx.Commit() and total--
         [rows |-> st.rows, total |-> total - 1, failed |-> st.failed,
          err |-> "nil", tx |-> "committed"]
  ELSE LET line == LineTab[text[i]]
       IN
       IF ~line.match
         THEN AddLoop(table, text, i + 1, user, host,
                      [st EXCEPT !.total = total, !.failed = st.failed + 1])
       ELSE IF ~line.stamp
         THEN \* tx.Rollback(); return "", err
              [rows |-> table, total |-> total, failed |-> st.failed,
               err |-> "parse", tx |-> "rolledback"]
       ELSE IF \E r \in st.rows : SameKey(r, Row(user, host, line))
         THEN \* sqlite3.ErrConstraintPrimaryKey
              AddLoop(table, text, i + 1, user, host,
                      [st EXCEPT !.total = total, !.failed = DuplicateIgnored(st.failed)])
       ELSE AddLoop(table, text, i + 1, user, host,
                    [st EXCEPT !.total = total,
                               !.rows = st.rows \cup {Row(user, host, line)}])

\* Database.AddFromBuffer(r, user, host) on table, database.go:180-233.
AddFromBuffer(table, text, user, host) ==
  AddLoop(table, text, 1, user, host, [rows |-> table, total |-> 0, failed |-> 0])

\* fmt.Sprintf("Processed %d entries, successful %d, failed %d.", ...),
\* database.go:231, or err.Error().
ParseErrorText == 103

StatsText(r) ==
  IF r.err = "nil" THEN <<r.total, r.total - r.failed, r.failed>>
  ELSE <<ParseErrorText>>

\* The sequences that list every element of S once, largest f first;
\* elements with equal f come in any order (SQL leaves it open).
RECURSIVE Descending(_, _)
Descending(S, f) ==
  IF S = {} THEN {<<>>}
  ELSE UNION { { <<x>> \o t : t \in Descending(S \ {x}, f) } :
               x \in {y \in S : \A z \in S : f[y] >= f[z]} }

\* The variant of the queries without their LIMIT.
NoLimit(s, k) == s

\* LIMIT k
Limit(s, k) == SubSeq(s, 1, IF Len(s) < k THEN Len(s) ELSE k)

TopHeader == 101

LastHeader == 102

Newline == 100

\* "Top-%d commands:" then "\n%d: %s" for every row, database.go:236-250:
\* SELECT command, count(*) ... GROUP BY command ORDER BY count DESC LIMIT k.
RECURSIVE TopRows(_, _)
TopRows(s, count) ==
  IF Len(s) = 0 THEN <<>>
  ELSE <<Newline, count[Head(s)], Head(s)>> \o TopRows(Tail(s), count)

TopK(table, k) ==
  LET commands == {r.command : r \in table}
      count == [c \in commands |-> Cardinality({r \in table : r.command = c})]
  IN  { <<TopHeader, k>> \o TopRows(Limit(s, k), count) : s \in Descending(commands, count) }

\* "Last %d commands:" then "\n%s %s" for every row, database.go:253-267:
\* SELECT datetime, command FROM history ORDER BY datetime DESC LIMIT k.
RECURSIVE LastRows(_)
LastRows(s) ==
  IF Len(s) = 0 THEN <<>>
  ELSE <<Newline, Head(s).datetime, Head(s).command>> \o LastRows(Tail(s))

LastK(table, k) ==
  LET when == [r \in table |-> r.datetime]
  IN  { <<LastHeader, k>> \o LastRows(Limit(s, k)) : s \in Descending(table, when) }

\* LIKE with the patterns of the model: "%" matches everything, any other
\* pattern only itself.
Like(value, pattern) == pattern = "%" \/ pattern = value

\* Database.RunQuery(params): the rows that match the user and host patterns,
\* most recent first, at most params.Kappa of them.
RunQuery(table, q) ==
  LET hits == {r \in table : Like(r.user, q.User) /\ Like(r.host, q.Host)}
      when == [r \in hits |-> r.datetime]
  IN  { LastRows(Limit(s, q.Kappa)) : s \in Descending(hits, when) }

(***************************************************************************)
(* Restore and the LIKE of its query, database.go:352-370.                 *)
(***************************************************************************)

\* The characters of the names and patterns of the model.
CharsOf(s) ==
  CASE s = "" -> <<>>
    [] s = "%" -> <<"%">>
    [] s = "u1" -> <<"u", "1">>
    [] s = "U1" -> <<"U", "1">>
    [] s = "u2" -> <<"u", "2">>
    [] s = "u3" -> <<"u", "3">>
    [] s = "u_" -> <<"u", "_">>
    [] s = "h1" -> <<"h", "1">>
    [] s = "h2" -> <<"h", "2">>

\* LIKE compares ASCII letters without regard to case.
Fold(ch) == CASE ch = "U" -> "u" [] ch = "H" -> "h" [] OTHER -> ch

\* v LIKE p ESCAPE '\': % matches any run of characters, _ any one
\* character, \ takes the next character of p literally.
RECURSIVE LikeMatch(_, _)
LikeMatch(v, p) ==
  IF Len(p) = 0 THEN Len(v) = 0
  ELSE IF Head(p) = "%"
    THEN IF LikeMatch(v, Tail(p)) THEN TRUE
         ELSE IF Len(v) = 0 THEN FALSE ELSE LikeMatch(Tail(v), p)
  ELSE IF Len(v) = 0 THEN FALSE
  ELSE IF Head(p) = "\\"
    THEN IF Len(p) < 2 THEN FALSE
         ELSE Fold(Head(v)) = Fold(p[2]) /\ LikeMatch(Tail(v), Tail(Tail(p)))
  ELSE (Head(p) = "_" \/ Fold(Head(v)) = Fold(Head(p))) /\ LikeMatch(Tail(v), Tail(p))

SqlLike(value, pattern) == LikeMatch(CharsOf(value), CharsOf(pattern))

\* The bytes of a command text; parseLine's (.*) also matches the empty
\* text, command 0 of the model.
CommandText(command) == IF command = 0 THEN <<>> ELSE <<command>>

\* t.Unix() of a stored datetime.
EpochOf(datetime) == 1433142000 + datetime

\* '#'
Hash == 104

\* The variant of Restore that returns result.String() as it is.
KeepSuffix(s, x) == s

\* strings.TrimSuffix(s, "\n")
TrimSuffix(s, x) ==
  IF Len(s) > 0 /\ s[Len(s)] = x THEN SubSeq(s, 1, Len(s) - 1) ELSE s

\* result.WriteString(fmt.Sprintf("#%d\n%s\n", t.Unix(), command)) for
\* every row, database.go:362-367.
RECURSIVE RestoreLines(_)
RestoreLines(s) ==
  IF Len(s) = 0 THEN <<>>
  ELSE <<Hash, EpochOf(Head(s).datetime), Newline>> \o CommandText(Head(s).command)
         \o <<Newline>> \o RestoreLines(Tail(s))

\* Database.Restore(user, hostname), database.go:353-370: the rows in one
\* of the orders the engine may yield them (no ORDER BY) and the text.
Restore(table, user, hostname) ==
  LET hits == {r \in table : SqlLike(r.user, user) /\ SqlLike(r.host, hostname)}
      any == [r \in hits |-> 0]
  IN  { [rows |-> s, out |-> TrimSuffix(RestoreLines(s), Newline)] : s \in Descending(hits, any) }

(***************************************************************************)
(* The database file: schema, version record, connlog and rlookup.         *)
(***************************************************************************)

\* const VERSION = "2", database.go:48.
VERSION == "2"

\* CREATE VIEW connections ... JOIN rlookup, database.go:132-136.
InitDBView == "join"

\* The variant of the migration that creates the view of initDB.
MigrateViewInner == "join"

\* CREATE VIEW connections ... LEFT JOIN rlookup, database.go:325-329.
MigrateView == "leftjoin"

NULL == "NULL"

\* SELECT datetime, remote, reverse FROM connlog AS c [LEFT] JOIN rlookup AS r
\* ON c.remote = r.ip, as table connections of store s yields it.
Connections(s) ==
  LET pairs == {p \in s.connlog \X s.rlookup : p[1].remote = p[2].ip}
      matched == { [datetime |-> p[1].datetime, remote |-> p[1].remote,
                    reverse |-> p[2].reverse] : p \in pairs }
      alone == { [datetime |-> c.datetime, remote |-> c.remote, reverse |-> NULL] :
                   c \in {x \in s.connlog : \A r \in s.rlookup : r.ip # x.remote} }
  IN  CASE s.view = "join" -> matched
        [] s.view = "leftjoin" -> matched \cup alone
        [] OTHER -> {}

\* The columns datetime and remote of a connlog row.
LogEntry(r) == [datetime |-> r.datetime, remote |-> r.remote]

\* The effect of the k-th statement of initDB on store s, database.go:113-144.
\* Every statement commits on its own: initDB opens no transaction.
\* Result: [ok, s].
InitDBStmt(k, s) ==
  CASE k = 1 -> [ok |-> "history" \notin s.tables,
                 s |-> [s EXCEPT !.file = TRUE, !.tables = @ \cup {"history"}]]
    [] k = 2 -> [ok |-> "admin" \notin s.tables, s |-> [s EXCEPT !.tables = @ \cup {"admin"}]]
    [] k = 3 -> [ok |-> "connlog" \notin s.tables,
                 s |-> [s EXCEPT !.tables = @ \cup {"connlog"}]]
    [] k = 4 -> [ok |-> "rlookup" \notin s.tables,
                 s |-> [s EXCEPT !.tables = @ \cup {"rlookup"}]]
    [] k = 5 -> [ok |-> s.view = "none", s |-> [s EXCEPT !.view = InitDBView]]
    [] k = 6 -> [ok |-> "admin" \in s.tables /\ s.version = "",
                 s |-> [s EXCEPT !.version = VERSION]]

InitDBLast == 6

\* The effect of the k-th statement of the version-1 step on store s as the
\* transaction sees it, database.go:314-333.  Result: [ok, s].
MigrateStmt(k, s) ==
  CASE k = 1 -> [ok |-> "connlog_new" \notin s.tables,
                 s |-> [s EXCEPT !.tables = @ \cup {"connlog_new"}, !.connlog_new = {}]]
    [] k = 2 -> [ok |-> /\ "connlog" \in s.tables
                        /\ \A a, b \in s.connlog : a.datetime = b.datetime => a = b,
                 s |-> [s EXCEPT !.connlog_new = {LogEntry(r) : r \in s.connlog}]]
    [] k = 3 -> [ok |-> "connlog" \in s.tables,
                 s |-> [s EXCEPT !.tables = @ \ {"connlog"}, !.connlog = {}]]
    [] k = 4 -> [ok |-> "connlog" \notin s.tables,
                 s |-> [s EXCEPT !.tables = (@ \ {"connlog_new"}) \cup {"connlog"},
                                 !.connlog = s.connlog_new, !.connlog_new = {}]]
    [] k = 5 -> [ok |-> "rlookup" \notin s.tables,
                 s |-> [s EXCEPT !.tables = @ \cup {"rlookup"}, !.rlookup = {}]]
    [] k = 6 -> [ok |-> s.view = "none", s |-> [s EXCEPT !.view = MigrateView]]
    [] k = 7 -> [ok |-> "admin" \in s.tables, s |-> [s EXCEPT !.version = VERSION]]

\* The last statement of tx.Exec(stmt), and the UPDATE admin after it.
MigrateLast == 6

MigrateUpdate == 7

(***************************************************************************)
(* State.                                                                  *)
(***************************************************************************)
VARIABLES
  cdc,      \* one frame travelling from encryptDispatch to receiveDecrypt
  srv,      \* the server process: "listening", or "exit:..." after log.Fatalln
  hpc,      \* hpc[c]: where handleConn(c) stands ("fatal": in log.Fatalln)
  wire,     \* wire[c]: the frames the peer has put on connection c
  msg,      \* msg[c]: handleConn's local msg
  result,   \* result[c]: handleConn's local result (line 159)
  stats,    \* stats[c]: the locals res1, res2 of the STATS case
  io,       \* io[c]: what the server did on connection c, in order
  dbcalls,  \* dbcalls[c]: the store methods handleConn(c) has called
  history,  \* the rows of table history
  imp,      \* the last AddFromBuffer call and its outcome
  prev,     \* the call before it, as far as the last one relates to it
  cli,      \* the ClientMode session
  jobs,     \* jobs[c]: the AddFromBuffer call running for connection c
  lock,     \* the connection whose transaction holds the store's write lock, or 0
  store,    \* the database file: schema, version record, connlog, rlookup
  boot,     \* the starting process: New, initDB, migrate, ServerMode
  qry,      \* the last query call and what it returned
  tasks     \* the LogConn calls and their reverse-lookup goroutines

vars ==
  <<cdc, srv, hpc, wire, msg, result, stats, io, dbcalls, history, imp, prev, cli,
    jobs, lock, store, boot, qry, tasks>>

\* The variables the codec, the server and the client leave alone.
codecRest ==
  <<srv, hpc, wire, msg, result, stats, io, dbcalls, history, imp, prev, cli,
    jobs, lock, store, boot, qry, tasks>>

serverRest == <<cdc, imp, prev, cli, jobs, lock, store, boot, qry, tasks>>

clientRest ==
  <<cdc, srv, hpc, wire, msg, result, stats, io, dbcalls, history, imp, prev,
    jobs, lock, store, boot, qry, tasks>>

\* The variables AddFromBuffer, called on its own, leaves alone.
importRest ==
  <<cdc, srv, hpc, wire, msg, result, stats, io, dbcalls, cli, jobs, lock, store, boot, qry, tasks>>

Conns == 1..MaxConns

NoRun ==
  [text |-> <<>>, user |-> "", host |-> "", before |-> {}, total |-> 0, failed |-> 0,
   err |-> "none", tx |-> "none"]

NoPrev == [again |-> FALSE, inserted |-> 0, failed |-> 0, err |-> "none"]

ClientOff ==
  [pc |-> "off", op |-> "", key |-> 0, stdin |-> <<>>, sent |-> <<>>, reads |-> 0,
   reply |-> ZeroMessage, rendered |-> <<>>, fault |-> "none", ret |-> "none",
   closed |-> FALSE]

NoOutcome == [msg |-> ZeroMessage, err |-> "none"]

\* No AddFromBuffer call is running for the connection.
NoJob ==
  [pc |-> "idle", text |-> <<>>, user |-> "", host |-> "", i |-> 1, rows |-> {},
   total |-> 0, failed |-> 0, err |-> "none", tx |-> "none"]

\* No database file.
NoStore ==
  [file |-> FALSE, tables |-> {}, version |-> "", connlog |-> {}, connlog_new |-> {},
   rlookup |-> {}, view |-> "none"]

BootOff ==
  [pc |-> "off", run |-> 0, stmt |-> 1, read |-> "", tx |-> "none", work |-> NoStore,
   before |-> NoStore, migrate |-> "none", new |-> "none", server |-> "none",
   migrated |-> FALSE]

NoQuery ==
  [op |-> "none", user |-> "", host |-> "", k |-> 0, rows |-> <<>>, out |-> <<>>,
   err |-> "none"]

\* No LogConn call yet: no goroutine, no INSERT INTO rlookup tried.
NoTask ==
  [pc |-> "none", ip |-> "", err |-> "none", addr |-> "", ret |-> "none"]

NoTasks == [t |-> [c \in 1..MaxConns |-> NoTask], writes |-> <<>>]

CodecIdle ==
  [stage |-> "idle", m |-> ZeroMessage, key |-> 0, salt |-> 0, wire |-> <<>>,
   altered |-> FALSE, rkey |-> 0, out |-> NoOutcome]

(***************************************************************************)
(* The codec on its own: one message encoded, carried and decoded.         *)
(***************************************************************************)
Keys == {1, 2}

Salts == {1, 2}

PayloadBytes == {1, 2}

RECURSIVE SeqsUpTo(_, _)
SeqsUpTo(S, n) ==
  IF n = 0 THEN {<<>>}
  ELSE LET shorter == SeqsUpTo(S, n - 1)
       IN  shorter \cup {Append(s, x) : s \in {t \in shorter : Len(t) = n - 1}, x \in S}

CodecQParams ==
  { ZeroQParams,
    [User |-> "u1", Host |-> "%", Command |-> "%", Kappa |-> 20],
    [User |-> "", Host |-> "h1", Command |-> "", Kappa |-> 1] }

CodecMessages ==
  { Message(t, p, u, h, q) :
      t \in {"", RESULT, HISTORY, STATS, QUERY, "bogus"},
      p \in SeqsUpTo(PayloadBytes, MaxPayload),
      u \in {"", "u1"}, h \in {"", "h1"}, q \in CodecQParams }

CodecInit ==
  /\ jobs = [c \in Conns |-> NoJob]
  /\ lock = 0
  /\ store = NoStore
  /\ boot = BootOff
  /\ qry = NoQuery
  /\ tasks = NoTasks
  /\ srv = "off"
  /\ hpc = [c \in Conns |-> "none"]
  /\ wire = [c \in Conns |-> <<>>]
  /\ msg = [c \in Conns |-> ZeroMessage]
  /\ result = [c \in Conns |-> <<>>]
  /\ stats = [c \in Conns |-> <<>>]
  /\ io = [c \in Conns |-> <<>>]
  /\ dbcalls = [c \in Conns |-> <<>>]
  /\ history = {}
  /\ imp = NoRun
  /\ prev = NoPrev
  /\ cli = ClientOff
  /\ cdc \in { [CodecIdle EXCEPT !.stage = "init", !.m = m, !.key = k, !.salt = s] :
              m \in CodecMessages, k \in Keys, s \in Salts }

\* encryptDispatch(conn, m) succeeds: the frame is on the wire.
CodecEncode ==
  /\ cdc.stage = "init"
  /\ cdc' = [cdc EXCEPT !.stage = "sent",
                        !.wire = <<EncodeFrame(cdc.m, cdc.key, cdc.salt)>>]
  /\ UNCHANGED codecRest

\* The frames a frame f becomes when one of its bytes is altered.
AlteredFrames(f) ==
  { [f EXCEPT !.len = f.len + d] : d \in {-1, 1} }
    \cup { [f EXCEPT !.salt = f.salt + 1] }
    \cup { [f EXCEPT !.tag[i] = f.tag[i] + 1] : i \in 1..Len(f.tag) }
    \cup { [f EXCEPT !.cipher[i] = f.cipher[i] + 1] : i \in 1..Len(f.cipher) }

\* The frames a frame f becomes when the stream ends before its end.
TruncatedFrames(f) == { [f EXCEPT !.cipher = SubSeq(f.cipher, 1, n)] : n \in 0..(Len(f.cipher) - 1) }

\* A byte of the frame is altered in flight.
CodecAlter ==
  /\ cdc.stage = "sent"
  /\ \E g \in AlteredFrames(cdc.wire[1]) :
       cdc' = [cdc EXCEPT !.stage = "altered", !.altered = TRUE, !.wire = <<g>>]
  /\ UNCHANGED codecRest

\* The frame is cut short in flight.
CodecTruncate ==
  /\ cdc.stage = "sent"
  /\ \E g \in TruncatedFrames(cdc.wire[1]) :
       cdc' = [cdc EXCEPT !.stage = "altered", !.altered = TRUE, !.wire = <<g>>]
  /\ UNCHANGED codecRest

\* receiveDecrypt(conn) on the receiving side, whose conf.Key is rk.
CodecDecode ==
  /\ cdc.stage \in {"sent", "altered"}
  /\ \E rk \in Keys :
       cdc' = [cdc EXCEPT !.stage = "done", !.rkey = rk,
                          !.out = ReceiveDecrypt(cdc.wire, rk)]
  /\ UNCHANGED codecRest

CodecNext ==
  \/ CodecEncode
  \/ CodecAlter
  \/ CodecTruncate
  \/ CodecDecode

(***************************************************************************)
(* The server: ServerMode's accept loop and one handleConn per connection. *)
(***************************************************************************)

\* conf.Key of the server process, part_001:206,244.
ServerKey == 1

\* The salt saltsecret draws for a reply (the replies are compared after
\* decoding, so one salt stands for all).
ServerSalt == 1

\* Kappa of the two STATS queries, part_001:171,175.
StatsTopKappa == 20

StatsLastKappa == 10

NoFrame == [len |-> 0, salt |-> 0, tag |-> <<>>, cipher |-> <<>>]

\* What the server does on a connection: a read of one frame, a call of
\* encryptDispatch (ok: the transport took the frame), conn.Close().
ReadEvent == [op |-> "read", ok |-> TRUE, frame |-> NoFrame]

WriteEvent(ok, frame) == [op |-> "write", ok |-> ok, frame |-> frame]

CloseEvent == [op |-> "close", ok |-> TRUE, frame |-> NoFrame]

\* The requests the peers of the model make.
Requests ==
  { Message(HISTORY, <<1, 2>>, "u1", "h1", ZeroQParams),
    Message(HISTORY, <<1, 3>>, "u2", "h1", ZeroQParams),
    Message(STATS, <<>>, "u1", "h1", ZeroQParams),
    Message(QUERY, <<>>, "u1", "h1",
            [User |-> "u1", Host |-> "%", Command |-> "%", Kappa |-> 1]),
    Message(RESULT, <<1>>, "", "", ZeroQParams),
    Message("bogus", <<>>, "u1", "h1", ZeroQParams) }

StatsFrame == EncodeFrame(Message(STATS, <<>>, "u1", "h1", ZeroQParams), ServerKey, 1)

\* What a peer may put on its connection before it stops writing: one
\* request; two requests; a request sealed under another key; a request
\* with a byte altered; a request cut short; a sealed plaintext that is no
\* Message; nothing at all.
PeerStreams ==
  { <<EncodeFrame(m, ServerKey, 1)>> : m \in Requests }
    \cup { <<StatsFrame, StatsFrame>>,
           <<EncodeFrame(Message(STATS, <<>>, "u1", "h1", ZeroQParams), 2, 1)>>,
           <<[StatsFrame EXCEPT !.cipher[1] = StatsFrame.cipher[1] + 1]>>,
           <<[StatsFrame EXCEPT !.cipher = SubSeq(StatsFrame.cipher, 1, 2)]>>,
           <<FrameOf(Seal(<<7>>, ServerKey, 1))>>,
           <<>> }

Alive == srv = "listening"

\* s.Accept() returns a connection; go handleConn(conn), part_001:75-84.
Accept(c) ==
  /\ Alive
  /\ hpc[c] = "none"
  /\ \A b \in Conns : b < c => hpc[b] # "none"
  /\ \E w \in PeerStreams : wire' = [wire EXCEPT ![c] = w]
  /\ hpc' = [hpc EXCEPT ![c] = "recv"]
  /\ UNCHANGED serverRest
  /\ UNCHANGED <<srv, msg, result, stats, io, dbcalls, history>>

\* s.Accept() returns an error: log.Fatalln(err), part_001:76-78.
AcceptFail ==
  /\ Alive
  /\ \E c \in Conns : hpc[c] = "none"
  /\ srv' = "exit:accept"
  /\ UNCHANGED serverRest
  /\ UNCHANGED <<hpc, wire, msg, result, stats, io, dbcalls, history>>

\* The variant of handleConn that answers an undecodable request with an
\* error reply.
HandleReceiveAnswering(c) ==
  /\ Alive
  /\ hpc[c] = "recv"
  /\ LET r == ReceiveDecrypt(wire[c], ServerKey)
     IN  /\ msg' = [msg EXCEPT ![c] = r.msg]
         /\ IF r.err # "nil"
              THEN /\ io' = [io EXCEPT ![c] = @ \o
                       <<ReadEvent,
                         WriteEvent(TRUE, EncodeFrame(Message(RESULT, <<>>, "", "", ZeroQParams),
                                                      ServerKey, ServerSalt)),
                         CloseEvent>>]
                   /\ hpc' = [hpc EXCEPT ![c] = "done"]
              ELSE /\ io' = [io EXCEPT ![c] = Append(@, ReadEvent)]
                   /\ hpc' = [hpc EXCEPT ![c] = "dispatch"]
  /\ UNCHANGED serverRest
  /\ UNCHANGED <<srv, wire, result, stats, dbcalls, history>>

\* msg, err := receiveDecrypt(conn); on an error log it and return, which
\* runs the deferred conn.Close(); part_001:151-157.
HandleReceive(c) ==
  /\ Alive
  /\ hpc[c] = "recv"
  /\ LET r == ReceiveDecrypt(wire[c], ServerKey)
     IN  /\ msg' = [msg EXCEPT ![c] = r.msg]
         /\ IF r.err # "nil"
              THEN /\ io' = [io EXCEPT ![c] = @ \o <<ReadEvent, CloseEvent>>]
                   /\ hpc' = [hpc EXCEPT ![c] = "done"]
              ELSE /\ io' = [io EXCEPT ![c] = Append(@, ReadEvent)]
                   /\ hpc' = [hpc EXCEPT ![c] = "dispatch"]
  /\ UNCHANGED serverRest
  /\ UNCHANGED <<srv, wire, result, stats, dbcalls, history>>

\* case HISTORY, part_001:161-169.
DispatchHistory(c) ==
  /\ Alive
  /\ hpc[c] = "dispatch" /\ msg[c].Type = HISTORY
  /\ LET r == AddFromBuffer(history, msg[c].Payload, msg[c].User, msg[c].Hostname)
     IN  /\ history' = r.rows
         /\ result' = [result EXCEPT ![c] = StatsText(r)]
  /\ dbcalls' = [dbcalls EXCEPT ![c] = Append(@, "AddFromBuffer")]
  /\ hpc' = [hpc EXCEPT ![c] = "reply"]
  /\ UNCHANGED serverRest
  /\ UNCHANGED <<srv, wire, msg, stats, io>>

\* case STATS: res1, err := db.TopK(...) without an error, part_001:171.
DispatchStatsTop(c) ==
  /\ Alive
  /\ hpc[c] = "dispatch" /\ msg[c].Type = STATS
  /\ \E res1 \in TopK(history, StatsTopKappa) : stats' = [stats EXCEPT ![c] = res1]
  /\ dbcalls' = [dbcalls EXCEPT ![c] = Append(@, "TopK")]
  /\ hpc' = [hpc EXCEPT ![c] = "stats"]
  /\ UNCHANGED serverRest
  /\ UNCHANGED <<srv, wire, msg, result, io, history>>

\* case STATS: db.TopK returns an error: log.Fatalln(err), part_001:172-174.
DispatchStatsFatal(c) ==
  /\ Alive
  /\ hpc[c] = "dispatch" /\ msg[c].Type = STATS
  /\ dbcalls' = [dbcalls EXCEPT ![c] = Append(@, "TopK")]
  /\ srv' = "exit:store"
  /\ hpc' = [hpc EXCEPT ![c] = "fatal"]
  /\ UNCHANGED serverRest
  /\ UNCHANGED <<wire, msg, result, stats, io, history>>

\* case STATS: res2, err := db.LastK(...), which returns its header and a
\* nil error when its query fails (database.go:256-258); then
\*   result := res1; result = append(result, "\n\n"...);
\*   result = append(result, res2...)
\* on a result declared in the case clause, part_001:175-182.  The result
\* of line 159 is not assigned.
DispatchStatsLast(c) ==
  /\ Alive
  /\ hpc[c] = "stats"
  /\ \E res2 \in LastK(history, StatsLastKappa) \cup {<<LastHeader, StatsLastKappa>>} :
       stats' = [stats EXCEPT ![c] = @ \o <<Newline, Newline>> \o res2]
  /\ dbcalls' = [dbcalls EXCEPT ![c] = Append(@, "LastK")]
  /\ hpc' = [hpc EXCEPT ![c] = "reply"]
  /\ UNCHANGED serverRest
  /\ UNCHANGED <<srv, wire, msg, result, io, history>>

\* The variant of case QUERY whose query empties table history.
DispatchQueryPurging(c) ==
  /\ Alive
  /\ hpc[c] = "dispatch" /\ msg[c].Type = QUERY
  /\ \E res \in RunQuery(history, msg[c].QParams) : result' = [result EXCEPT ![c] = res]
  /\ dbcalls' = [dbcalls EXCEPT ![c] = Append(@, "RunQuery")]
  /\ hpc' = [hpc EXCEPT ![c] = "reply"]
  /\ history' = {}
  /\ UNCHANGED serverRest
  /\ UNCHANGED <<srv, wire, msg, stats, io>>

\* case QUERY: result, err = db.RunQuery(msg.QParams), part_001:184.
DispatchQuery(c) ==
  /\ Alive
  /\ hpc[c] = "dispatch" /\ msg[c].Type = QUERY
  /\ \E res \in RunQuery(history, msg[c].QParams) : result' = [result EXCEPT ![c] = res]
  /\ dbcalls' = [dbcalls EXCEPT ![c] = Append(@, "RunQuery")]
  /\ hpc' = [hpc EXCEPT ![c] = "reply"]
  /\ UNCHANGED serverRest
  /\ UNCHANGED <<srv, wire, msg, stats, io, history>>

\* case QUERY: db.RunQuery returns an error: log.Fatalln(err), part_001:185-187.
DispatchQueryFatal(c) ==
  /\ Alive
  /\ hpc[c] = "dispatch" /\ msg[c].Type = QUERY
  /\ dbcalls' = [dbcalls EXCEPT ![c] = Append(@, "RunQuery")]
  /\ srv' = "exit:store"
  /\ hpc' = [hpc EXCEPT ![c] = "fatal"]
  /\ UNCHANGED serverRest
  /\ UNCHANGED <<wire, msg, result, stats, io, history>>

\* The variant of the switch that treats an unlisted type as STATS.
DispatchOtherAsStats(c) ==
  /\ Alive
  /\ hpc[c] = "dispatch" /\ msg[c].Type \notin {HISTORY, STATS, QUERY}
  /\ \E res1 \in TopK(history, StatsTopKappa) : result' = [result EXCEPT ![c] = res1]
  /\ dbcalls' = [dbcalls EXCEPT ![c] = Append(@, "TopK")]
  /\ hpc' = [hpc EXCEPT ![c] = "reply"]
  /\ UNCHANGED serverRest
  /\ UNCHANGED <<srv, wire, msg, stats, io, history>>

\* No case of the switch matches msg.Type, part_001:160-190.
DispatchOther(c) ==
  /\ Alive
  /\ hpc[c] = "dispatch" /\ msg[c].Type \notin {HISTORY, STATS, QUERY}
  /\ hpc' = [hpc EXCEPT ![c] = "reply"]
  /\ UNCHANGED serverRest
  /\ UNCHANGED <<srv, wire, msg, result, stats, io, dbcalls, history>>

\* reply := Message{Type: RESULT, Payload: result}; encryptDispatch(conn,
\* reply), its error only logged; return, which runs the deferred
\* conn.Close(); part_001:192-196.
HandleReply(c) ==
  /\ Alive
  /\ hpc[c] = "reply"
  /\ \E ok \in BOOLEAN :
       io' = [io EXCEPT ![c] = @ \o
                <<WriteEvent(ok, EncodeFrame(Message(RESULT, result[c], "", "", ZeroQParams),
                                             ServerKey, ServerSalt)),
                  CloseEvent>>]
  /\ hpc' = [hpc EXCEPT ![c] = "done"]
  /\ UNCHANGED serverRest
  /\ UNCHANGED <<srv, wire, msg, result, stats, dbcalls, history>>

ServerInit ==
  /\ jobs = [c \in Conns |-> NoJob]
  /\ lock = 0
  /\ store = NoStore
  /\ boot = BootOff
  /\ qry = NoQuery
  /\ tasks = NoTasks
  /\ cdc = CodecIdle
  /\ imp = NoRun
  /\ prev = NoPrev
  /\ cli = ClientOff
  /\ srv = "listening"
  /\ hpc = [c \in Conns |-> "none"]
  /\ wire = [c \in Conns |-> <<>>]
  /\ msg = [c \in Conns |-> ZeroMessage]
  /\ result = [c \in Conns |-> <<>>]
  /\ stats = [c \in Conns |-> <<>>]
  /\ io = [c \in Conns |-> <<>>]
  /\ dbcalls = [c \in Conns |-> <<>>]
  /\ history = {}

ServerNext ==
  \/ AcceptFail
  \/ \E c \in Conns : Accept(c)
  \/ \E c \in Conns : HandleReceive(c)
  \/ \E c \in Conns : DispatchHistory(c)
  \/ \E c \in Conns : DispatchStatsTop(c)
  \/ \E c \in Conns : DispatchStatsFatal(c)
  \/ \E c \in Conns : DispatchStatsLast(c)
  \/ \E c \in Conns : DispatchQuery(c)
  \/ \E c \in Conns : DispatchQueryFatal(c)
  \/ \E c \in Conns : DispatchOther(c)
  \/ \E c \in Conns : HandleReply(c)


(***************************************************************************)
(* The client: one ClientMode call, part_001:89-147.                       *)
(***************************************************************************)

\* conf.Operation
OP_IMPORT == "import"
OP_STATS == "stats"
OP_QUERY == "query"

\* conf.User, conf.Hostname and conf.QParams of the client process.
ClientQParams == [User |-> "u1", Host |-> "%", Command |-> "%", Kappa |-> 20]

\* msg as built at part_001:107,126,128.
ClientRequest ==
  CASE cli.op = OP_IMPORT -> Message(HISTORY, cli.stdin, "u1", "h1", ZeroQParams)
    [] cli.op = OP_STATS -> Message(STATS, <<>>, "u1", "h1", ZeroQParams)
    [] cli.op = OP_QUERY -> Message(QUERY, <<>>, "u1", "h1", ClientQParams)

\* What the client may find on its connection after its request: a RESULT
\* reply of the server, a message of another type, or nothing.
ReplyStreams ==
  { <<EncodeFrame(Message(t, p, "", "", ZeroQParams), ServerKey, s)>> :
      t \in {RESULT, HISTORY, ""}, p \in {<<>>, <<2, 2, 0>>}, s \in Salts }
    \cup {<<>>}

ClientInit ==
  /\ jobs = [c \in Conns |-> NoJob]
  /\ lock = 0
  /\ store = NoStore
  /\ boot = BootOff
  /\ qry = NoQuery
  /\ tasks = NoTasks
  /\ cdc = CodecIdle
  /\ srv = "off"
  /\ hpc = [c \in Conns |-> "none"]
  /\ wire = [c \in Conns |-> <<>>]
  /\ msg = [c \in Conns |-> ZeroMessage]
  /\ result = [c \in Conns |-> <<>>]
  /\ stats = [c \in Conns |-> <<>>]
  /\ io = [c \in Conns |-> <<>>]
  /\ dbcalls = [c \in Conns |-> <<>>]
  /\ history = {}
  /\ imp = NoRun
  /\ prev = NoPrev
  /\ cli \in { [ClientOff EXCEPT !.pc = "start", !.op = o, !.key = k, !.stdin = t] :
              o \in {OP_IMPORT, OP_STATS, OP_QUERY, "restore"},
              k \in Keys, t \in {<<>>, <<1, 2>>} }

\* The deferred conn.Close() runs at every return after a successful Dial.
ClientReturn(ret, fault) ==
  [cli EXCEPT !.pc = "returned", !.ret = ret, !.fault = fault, !.closed = TRUE]

\* net.Dial fails: return err, part_001:91-94.
ClientDialFail ==
  /\ cli.pc = "start"
  /\ cli' = [cli EXCEPT !.pc = "returned", !.ret = "error", !.fault = "dial"]
  /\ UNCHANGED clientRest

\* net.Dial succeeds, part_001:91-95.
ClientDial ==
  /\ cli.pc = "start"
  /\ cli' = [cli EXCEPT !.pc = "dialed"]
  /\ UNCHANGED clientRest

\* default: return errors.New("unknown function"), part_001:129-130.
ClientUnknownOp ==
  /\ cli.pc = "dialed"
  /\ cli.op \notin {OP_IMPORT, OP_STATS, OP_QUERY}
  /\ cli' = ClientReturn("error", "op")
  /\ UNCHANGED clientRest

\* ioutil.ReadAll(os.Stdin) fails: return err, part_001:102-105.
ClientStdinFail ==
  /\ cli.pc = "dialed"
  /\ cli.op = OP_IMPORT
  /\ cli' = ClientReturn("error", "stdin")
  /\ UNCHANGED clientRest

\* encryptDispatch(conn, msg) fails: return err, part_001:109-111,132-134.
ClientSendFail ==
  /\ cli.pc = "dialed"
  /\ cli.op \in {OP_IMPORT, OP_STATS, OP_QUERY}
  /\ cli' = ClientReturn("error", "send")
  /\ UNCHANGED clientRest

\* encryptDispatch(conn, msg) succeeds, part_001:109-113,132-135.
ClientSend ==
  /\ cli.pc = "dialed"
  /\ cli.op \in {OP_IMPORT, OP_STATS, OP_QUERY}
  /\ \E salt \in Salts :
       cli' = [cli EXCEPT !.pc = "sent",
                          !.sent = Append(@, EncodeFrame(ClientRequest, cli.key, salt))]
  /\ UNCHANGED clientRest

\* reply, err := receiveDecrypt(conn); return err on an error; otherwise
\* switch reply.Type { case RESULT: <print the payload> }; return nil.
\* part_001:115-124,137-146.
ClientReceive ==
  /\ cli.pc = "sent"
  /\ \E stream \in ReplyStreams :
       LET r == ReceiveDecrypt(stream, cli.key)
       IN  IF r.err # "nil"
             THEN cli' = [ClientReturn("error", "receive") EXCEPT !.reads = @ + 1]
             ELSE cli' = [ClientReturn("nil", "none") EXCEPT
                            !.reads = @ + 1,
                            !.reply = r.msg,
                            !.rendered = IF r.msg.Type = RESULT
                                           THEN Append(@, r.msg.Payload) ELSE @]
  /\ UNCHANGED clientRest

ClientNext ==
  \/ ClientDialFail
  \/ ClientDial
  \/ ClientUnknownOp
  \/ ClientStdinFail
  \/ ClientSendFail
  \/ ClientSend
  \/ ClientReceive

SpecClient == ClientInit /\ [][ClientNext]_vars

(***************************************************************************)
(* The store on its own: AddFromBuffer called again and again on a store   *)
(* that starts empty (local mode, or one HISTORY request after another).   *)
(***************************************************************************)
Users == {"u1"}

Hosts == {"h1"}

\* The history texts: up to MaxLines lines, with or without a last line
\* that lacks its '\n'.
ImportTexts ==
  LET whole == SeqsUpTo(1..4, MaxLines)
  IN  whole \cup {Append(t, 5) : t \in whole} \cup {Append(t, 6) : t \in whole}

ImportInit ==
  /\ jobs = [c \in Conns |-> NoJob]
  /\ lock = 0
  /\ store = NoStore
  /\ boot = BootOff
  /\ qry = NoQuery
  /\ tasks = NoTasks
  /\ cdc = CodecIdle
  /\ srv = "off"
  /\ hpc = [c \in Conns |-> "none"]
  /\ wire = [c \in Conns |-> <<>>]
  /\ msg = [c \in Conns |-> ZeroMessage]
  /\ result = [c \in Conns |-> <<>>]
  /\ stats = [c \in Conns |-> <<>>]
  /\ io = [c \in Conns |-> <<>>]
  /\ dbcalls = [c \in Conns |-> <<>>]
  /\ cli = ClientOff
  /\ history = {}
  /\ imp = NoRun
  /\ prev = NoPrev

\* db.AddFromBuffer(r, user, host) with r reading text.
Import(text, user, host) ==
  LET r == AddFromBuffer(history, text, user, host)
  IN  /\ history' = r.rows
      /\ imp' = [text |-> text, user |-> user, host |-> host, before |-> history,
                 total |-> r.total, failed |-> r.failed, err |-> r.err, tx |-> r.tx]
      /\ prev' = [again |-> imp.err # "none" /\ imp.text = text
                              /\ imp.user = user /\ imp.host = host,
                  inserted |-> Cardinality(history \ imp.before),
                  failed |-> imp.failed,
                  err |-> imp.err]
      /\ UNCHANGED importRest

ImportNext == \E text \in ImportTexts, user \in Users, host \in Hosts : Import(text, user, host)

SpecImport == ImportInit /\ [][ImportNext]_vars

SpecCodec == CodecInit /\ [][CodecNext]_vars

(***************************************************************************)
(* C8. Round trip: the message receiveDecrypt returns under key k for the  *)
(* frame encryptDispatch(m) wrote under key k is m, and the error is nil.  *)
(***************************************************************************)
RoundTrip ==
  (cdc.stage = "done" /\ ~cdc.altered /\ cdc.rkey = cdc.key)
    => cdc.out = [msg |-> cdc.m, err |-> "nil"]

RoundTripWitness ==
  /\ cdc.stage = "done" /\ ~cdc.altered /\ cdc.rkey = cdc.key
  /\ cdc.m.Type = QUERY /\ Len(cdc.m.Payload) = MaxPayload
  /\ cdc.m.User = "u1" /\ cdc.m.Hostname = "" /\ cdc.m.QParams.Kappa = 20
  /\ cdc.out.err = "nil"

(***************************************************************************)
(* C9. A frame altered in a byte, cut short, or sealed under another key   *)
(* does not decode: receiveDecrypt returns an error and the zero Message,  *)
(* never a message of its own.                                             *)
(***************************************************************************)
TamperDetected ==
  (cdc.stage = "done" /\ (cdc.altered \/ cdc.rkey # cdc.key))
    => (cdc.out.err # "nil" /\ cdc.out.msg = ZeroMessage)

TamperDetectedWitness ==
  /\ cdc.stage = "done" /\ cdc.altered /\ cdc.rkey = cdc.key
  /\ cdc.m.Type = HISTORY /\ Len(cdc.m.Payload) > 0
  /\ cdc.wire[1].len = Len(cdc.wire[1].cipher)
  /\ cdc.out = [msg |-> ZeroMessage, err |-> "integrity"]

SpecServer == ServerInit /\ [][ServerNext]_vars

\* What handleConn(c) read, wrote and closed so far.
Reads(c) == SelectSeq(io[c], LAMBDA e : e.op = "read")

Writes(c) == SelectSeq(io[c], LAMBDA e : e.op = "write")

Closed(c) == \E i \in 1..Len(io[c]) : io[c][i].op = "close"

\* The message a peer holding the server's key reads from a reply frame.
ReplyOf(e) == ReceiveDecrypt(<<e.frame>>, ServerKey).msg

\* Connection c was accepted and its first frame decodes under the server's key.
Decodes(c) == hpc[c] # "none" /\ ReceiveDecrypt(wire[c], ServerKey).err = "nil"

Undecodable(c) == hpc[c] # "none" /\ ReceiveDecrypt(wire[c], ServerKey).err # "nil"

\* handleConn(c) has got its request.
Received(c) == Decodes(c) /\ hpc[c] \notin {"none", "recv"}

\* handleConn(c) takes no further step: it returned, or it is in log.Fatalln.
Ended(c) == hpc[c] \in {"done", "fatal"}

(***************************************************************************)
(* C1. When receiveDecrypt fails on a connection, handleConn calls no      *)
(* write on it: it reads, logs, and closes.                                *)
(***************************************************************************)
SilentOnDecodeFailure ==
  \A c \in Conns :
    Undecodable(c) =>
      /\ Len(Writes(c)) = 0
      /\ hpc[c] \in {"recv", "done"}
      /\ hpc[c] = "done" => io[c] = <<ReadEvent, CloseEvent>>

SilentOnDecodeFailureWitness ==
  \E c \in Conns :
    /\ hpc[c] = "done"
    /\ ReceiveDecrypt(wire[c], ServerKey).err = "integrity"
    /\ io[c] = <<ReadEvent, CloseEvent>>

(***************************************************************************)
(* C2. Every connection whose request decodes gets exactly one RESULT      *)
(* reply from handleConn, after the request was read and dispatched, and   *)
(* handleConn reads no second request.                                     *)
(***************************************************************************)
ExactlyOneReply ==
  \A c \in Conns :
    (Received(c) /\ Ended(c)) =>
      /\ Len(Reads(c)) = 1
      /\ Len(Writes(c)) = 1
      /\ io[c][1].op = "read" /\ io[c][2].op = "write"
      /\ ReplyOf(io[c][2]).Type = RESULT

(***************************************************************************)
(* C3. Every connection handed to handleConn is closed by the time         *)
(* handleConn is over, whichever path it took.                             *)
(***************************************************************************)
ClosedOnEveryPath == \A c \in Conns : Ended(c) => Closed(c)

(***************************************************************************)
(* C4. The payload of the reply to a STATS request is the top-K result,    *)
(* a blank line, and the most-recent-K result.                             *)
(***************************************************************************)
StatsReplyCarriesStats ==
  \A c \in Conns :
    (Received(c) /\ msg[c].Type = STATS /\ hpc[c] = "done") =>
      \A i \in 1..Len(io[c]) :
        io[c][i].op = "write" => ReplyOf(io[c][i]).Payload = stats[c]

(***************************************************************************)
(* C5. A request of a type other than HISTORY, STATS and QUERY makes       *)
(* handleConn call no store method and no log.Fatalln; handleConn sends    *)
(* one RESULT reply with an empty payload and closes the connection.       *)
(***************************************************************************)
UnknownTypeBenign ==
  \A c \in Conns :
    (Received(c) /\ msg[c].Type \notin {HISTORY, STATS, QUERY}) =>
      /\ dbcalls[c] = <<>>
      /\ hpc[c] # "fatal"
      /\ hpc[c] = "done" =>
           /\ Len(io[c]) = 3
           /\ io[c][1] = ReadEvent /\ io[c][2].op = "write" /\ io[c][3] = CloseEvent
           /\ ReplyOf(io[c][2]) = Message(RESULT, <<>>, "", "", ZeroQParams)

UnknownTypeBenignWitness ==
  \E c \in Conns :
    /\ Received(c) /\ msg[c].Type = RESULT /\ Len(msg[c].Payload) > 0
    /\ hpc[c] = "done" /\ io[c][2].ok
    /\ ReplyOf(io[c][2]) = Message(RESULT, <<>>, "", "", ZeroQParams)

(***************************************************************************)
(* C7. A transport error ends only the connection it occurs on: after a    *)
(* failed accept, read or write the server is still running.               *)
(***************************************************************************)
TransportError ==
  \/ srv = "exit:accept"
  \/ \E c \in Conns : hpc[c] = "done" /\ ReceiveDecrypt(wire[c], ServerKey).err = "transport"
  \/ \E c \in Conns : \E i \in 1..Len(io[c]) : io[c][i].op = "write" /\ ~io[c][i].ok

TransportErrorIsLocal == TransportError => srv # "exit:accept"

(***************************************************************************)
(* C6. ClientMode sends at most one request and reads at most one reply;   *)
(* it returns an error when the send fails, when the receive or decode     *)
(* fails, and when the reply's type is not RESULT; it returns nil only     *)
(* after it has rendered the payload of a RESULT reply.                    *)
(***************************************************************************)
ClientFailsClosed ==
  /\ Len(cli.sent) <= 1 /\ cli.reads <= 1
  /\ cli.pc = "returned" =>
       /\ cli.fault \in {"send", "receive"} => cli.ret = "error"
       /\ (cli.reads = 1 /\ cli.fault = "none" /\ cli.reply.Type # RESULT) => cli.ret = "error"
       /\ cli.ret = "nil" => (cli.reply.Type = RESULT /\ cli.rendered = <<cli.reply.Payload>>)

\* Every line of text is a well-formed, '\n'-terminated history line.
WellFormed(text) ==
  \A i \in 1..Len(text) :
    LineTab[text[i]].match /\ LineTab[text[i]].stamp /\ ~LineTab[text[i]].eof

\* The last import repeats the import before it, and both returned no error.
Reimported == prev.again /\ prev.err = "nil" /\ imp.err = "nil"

(***************************************************************************)
(* C10 as claimed. Importing the same well-formed text twice for the same  *)
(* (user, host): the second run adds no row and its failed count is the    *)
(* number of rows the first run inserted.                                  *)
(***************************************************************************)
ReimportFailsWhatWasInserted ==
  (Reimported /\ WellFormed(imp.text)) =>
    (history = imp.before /\ imp.failed = prev.inserted)

(***************************************************************************)
(* C10 as amended. Importing the same text twice for the same (user,       *)
(* host), both runs without error: the second run adds no row, none of its *)
(* lines is successful, and its failed count is the number of rows the     *)
(* first run inserted plus the number of lines the first run failed.       *)
(***************************************************************************)
ReimportFailsEveryLine ==
  Reimported =>
    /\ history = imp.before
    /\ imp.failed = imp.total
    /\ imp.failed = prev.inserted + prev.failed

ReimportFailsEveryLineWitness ==
  /\ Reimported /\ WellFormed(imp.text)
  /\ imp.text = <<1, 2>>
  /\ prev.inserted = 2 /\ imp.failed = 2 /\ history = imp.before

\* The lines of text that parseLine matches and whose stamp time.Parse takes.
GoodLines(text) ==
  {i \in 1..Len(text) : LineTab[text[i]].match /\ LineTab[text[i]].stamp}

\* The lines of text that parseLine does not match.
NonMatching(text) == {i \in 1..Len(text) : ~LineTab[text[i]].match}

\* The lines of text that parseLine matches and whose stamp time.Parse refuses.
BadStamps(text) ==
  {i \in 1..Len(text) : LineTab[text[i]].match /\ ~LineTab[text[i]].stamp}

\* The record a good line of the last import stands for.
RecordOf(i) == Row(imp.user, imp.host, LineTab[imp.text[i]])

\* The last import's text is made of good lines and non-matching lines, the
\* good ones pairwise distinct and not stored before the import.
FreshAndTolerable ==
  /\ imp.err # "none"
  /\ BadStamps(imp.text) = {}
  /\ \A i, j \in GoodLines(imp.text) : i # j => ~SameKey(RecordOf(i), RecordOf(j))
  /\ \A i \in GoodLines(imp.text) : \A r \in imp.before : ~SameKey(r, RecordOf(i))

(***************************************************************************)
(* C11. An import of w good lines (pairwise distinct, not yet stored) and  *)
(* m non-matching lines returns no error, reports processed = w + m = the  *)
(* number of lines, successful = w, failed = m, and stores all w records.  *)
(***************************************************************************)
ImportCountsEveryLine ==
  FreshAndTolerable =>
    /\ imp.err = "nil"
    /\ imp.total = Len(imp.text)
    /\ imp.failed = Cardinality(NonMatching(imp.text))
    /\ imp.total - imp.failed = Cardinality(GoodLines(imp.text))
    /\ \A i \in GoodLines(imp.text) : RecordOf(i) \in history

(***************************************************************************)
(* C12. An import whose text has a line that matches the pattern with a    *)
(* stamp that does not parse returns an error, leaves table history as it  *)
(* was before the import, and reads no line after that one.                *)
(***************************************************************************)
TimestampFailureRollsBack ==
  (imp.err # "none" /\ BadStamps(imp.text) # {}) =>
    /\ imp.err = "parse"
    /\ history = imp.before
    /\ \A i \in BadStamps(imp.text) : imp.total <= i

(***************************************************************************)
(* Imports in step: handleConn tasks of different connections inside       *)
(* AddFromBuffer at the same time, one loop iteration per step, each in    *)
(* its own transaction on the shared store handle (part_001:84,            *)
(* database.go:183-229).  A transaction sees the committed rows and its    *)
(* own; the first insert it tries takes the store's write lock, which it   *)
(* keeps until Commit or Rollback.                                         *)
(***************************************************************************)
ImportUsers == {"u1", "u2"}

\* The history files of the clients: two good lines, the same lines the
\* other way round, a non-matching line, a last line without '\n', a line
\* with an unparsable stamp.
ConcurrentTexts == {<<1, 2>>, <<2, 1>>, <<3, 1>>, <<1, 5>>, <<1, 4>>}

\* rest of the state, untouched by AddFromBuffer
concurrentRest ==
  <<cdc, srv, hpc, wire, msg, result, stats, io, dbcalls, imp, prev, cli, store, boot, qry, tasks>>

ConcurrentInit ==
  /\ jobs = [c \in Conns |-> NoJob]
  /\ lock = 0
  /\ store = NoStore
  /\ boot = BootOff
  /\ qry = NoQuery
  /\ tasks = NoTasks
  /\ cdc = CodecIdle
  /\ srv = "off"
  /\ hpc = [c \in Conns |-> "none"]
  /\ wire = [c \in Conns |-> <<>>]
  /\ msg = [c \in Conns |-> ZeroMessage]
  /\ result = [c \in Conns |-> <<>>]
  /\ stats = [c \in Conns |-> <<>>]
  /\ io = [c \in Conns |-> <<>>]
  /\ dbcalls = [c \in Conns |-> <<>>]
  /\ cli = ClientOff
  /\ history = {}
  /\ imp = NoRun
  /\ prev = NoPrev

\* The line the loop of job c reads next, and whether the reader is at its end.
AtEnd(c) ==
  IF jobs[c].i > Len(jobs[c].text) THEN TRUE ELSE LineTab[jobs[c].text[jobs[c].i]].eof

NextLine(c) == LineTab[jobs[c].text[jobs[c].i]]

NextRow(c) == Row(jobs[c].user, jobs[c].host, NextLine(c))

InLoop(c) == jobs[c].pc = "loop"

GoodNext(c) == InLoop(c) /\ ~AtEnd(c) /\ NextLine(c).match /\ NextLine(c).stamp

\* The write lock is free or already held by c's transaction.
CanWrite(c) == lock \in {0, c}

Release(c) == IF lock = c THEN 0 ELSE lock

\* tx, _ := d.Begin(); stmt := tx.Stmt(d.insert); total, failed := 0, 0
\* database.go:183-185.
ImportBegin(c) ==
  /\ jobs[c].pc = "idle"
  /\ \A b \in Conns : b < c => jobs[b].pc # "idle"
  /\ \E text \in ConcurrentTexts, user \in ImportUsers :
       jobs' = [jobs EXCEPT ![c] = [NoJob EXCEPT !.pc = "loop", !.text = text,
                                                 !.user = user, !.host = "h1",
                                                 !.tx = "open"]]
  /\ UNCHANGED <<lock, history>>
  /\ UNCHANGED concurrentRest

\* ReadString returns io.EOF: total++; break; tx.Commit(); total--;
\* database.go:187-191,229-232.
ImportCommit(c) ==
  /\ InLoop(c) /\ AtEnd(c)
  /\ history' = history \cup jobs[c].rows
  /\ lock' = Release(c)
  /\ jobs' = [jobs EXCEPT ![c].pc = "done", ![c].err = "nil", ![c].rows = {},
                          ![c].tx = "committed"]
  /\ UNCHANGED concurrentRest

\* len(args) != 3: failed++; continue; database.go:199-204.
ImportSkip(c) ==
  /\ InLoop(c) /\ ~AtEnd(c) /\ ~NextLine(c).match
  /\ jobs' = [jobs EXCEPT ![c].total = @ + 1, ![c].failed = @ + 1, ![c].i = @ + 1]
  /\ UNCHANGED <<lock, history>>
  /\ UNCHANGED concurrentRest

\* time.Parse fails: tx.Rollback(); return "", err; database.go:205-209.
ImportParseFail(c) ==
  /\ InLoop(c) /\ ~AtEnd(c) /\ NextLine(c).match /\ ~NextLine(c).stamp
  /\ lock' = Release(c)
  /\ jobs' = [jobs EXCEPT ![c].pc = "done", ![c].err = "parse", ![c].rows = {},
                          ![c].total = @ + 1, ![c].tx = "rolledback"]
  /\ UNCHANGED history
  /\ UNCHANGED concurrentRest

\* stmt.Exec inserts the row; database.go:211.
ImportInsert(c) ==
  /\ GoodNext(c) /\ CanWrite(c)
  /\ ~\E r \in history \cup jobs[c].rows : SameKey(r, NextRow(c))
  /\ lock' = c
  /\ jobs' = [jobs EXCEPT ![c].rows = @ \cup {NextRow(c)}, ![c].total = @ + 1,
                          ![c].i = @ + 1]
  /\ UNCHANGED history
  /\ UNCHANGED concurrentRest

\* stmt.Exec fails with ErrConstraintPrimaryKey: failed++; database.go:212-219.
ImportDuplicate(c) ==
  /\ GoodNext(c) /\ CanWrite(c)
  /\ \E r \in history \cup jobs[c].rows : SameKey(r, NextRow(c))
  /\ lock' = c
  /\ jobs' = [jobs EXCEPT ![c].failed = DuplicateIgnored(@), ![c].total = @ + 1,
                          ![c].i = @ + 1]
  /\ UNCHANGED history
  /\ UNCHANGED concurrentRest

\* stmt.Exec fails with another sqlite3 error, here "database is locked"
\* because another transaction holds the write lock:
\* tx.Rollback(); return "", err; database.go:220-222.
ImportBusy(c) ==
  /\ GoodNext(c) /\ ~CanWrite(c)
  /\ jobs' = [jobs EXCEPT ![c].pc = "done", ![c].err = "busy", ![c].rows = {},
                          ![c].total = @ + 1, ![c].tx = "rolledback"]
  /\ UNCHANGED <<lock, history>>
  /\ UNCHANGED concurrentRest

ConcurrentNext ==
  \/ \E c \in Conns : ImportBegin(c)
  \/ \E c \in Conns : ImportCommit(c)
  \/ \E c \in Conns : ImportSkip(c)
  \/ \E c \in Conns : ImportParseFail(c)
  \/ \E c \in Conns : ImportInsert(c)
  \/ \E c \in Conns : ImportDuplicate(c)
  \/ \E c \in Conns : ImportBusy(c)

SpecConcurrent == ConcurrentInit /\ [][ConcurrentNext]_vars

\* The good lines of job c's file.
JobRecords(c) ==
  {Row(jobs[c].user, jobs[c].host, LineTab[jobs[c].text[i]]) : i \in GoodLines(jobs[c].text)}

\* Files without a line whose stamp does not parse (such a file is refused
\* as a whole, C12).
CleanFiles == \A c \in Conns : BadStamps(jobs[c].text) = {}

AllImported == \A c \in Conns : jobs[c].pc = "done"

(***************************************************************************)
(* C13. Whatever the interleaving of imports running on different          *)
(* connections: table history never holds two rows with the same (user,    *)
(* command, datetime); every import returns without an error; and when     *)
(* all imports are over, every good record of every file is in the table.  *)
(***************************************************************************)
ConcurrentImportsConverge ==
  CleanFiles =>
    /\ \A r1, r2 \in history : SameKey(r1, r2) => r1 = r2
    /\ \A c \in Conns : jobs[c].pc = "done" => jobs[c].err = "nil"
    /\ AllImported => \A c \in Conns : JobRecords(c) \subseteq history

(***************************************************************************)
(* Start of the server process: database.New with initDB or migrate, then  *)
(* net.Listen and the accept loop (part_001:61-85, database.go:70-148,     *)
(* 301-350).  The process may be started again on the file it left.        *)
(***************************************************************************)
ConnlogRows == {[datetime |-> d, remote |-> ip] : d \in 1..MaxConnlog, ip \in {"ip1", "ip2"}}

\* connlog.datetime is the primary key.
Connlogs == {S \in SUBSET ConnlogRows : \A a, b \in S : a.datetime = b.datetime => a = b}

Rlookups == {{}, {[ip |-> "ip1", reverse |-> "host1"]}}

\* A version-1 file: no rlookup, no view, connlog with its own reverse column.
V1Store(rows) ==
  [NoStore EXCEPT !.file = TRUE, !.tables = {"history", "admin", "connlog"},
                  !.version = "1",
                  !.connlog = { [datetime |-> r.datetime, remote |-> r.remote,
                                 reverse |-> "old"] : r \in rows }]

\* A file of version v with the tables of version 2.
V2Store(v, rows, rl, view) ==
  [NoStore EXCEPT !.file = TRUE, !.tables = {"history", "admin", "connlog", "rlookup"},
                  !.version = v, !.connlog = rows, !.rlookup = rl, !.view = view]

StartupStores ==
  {NoStore} \cup {V1Store(rows) : rows \in Connlogs}
    \cup {V2Store(VERSION, rows, rl, view) :
            rows \in Connlogs, rl \in Rlookups, view \in {InitDBView, MigrateView}}
    \cup {V2Store("3", {}, {}, MigrateView)}

startupRest == <<cdc, msg, result, stats, io, dbcalls, history, imp, prev, cli, jobs, lock, qry, tasks>>

StartupInit ==
  /\ jobs = [c \in Conns |-> NoJob]
  /\ lock = 0
  /\ qry = NoQuery
  /\ tasks = NoTasks
  /\ cdc = CodecIdle
  /\ srv = "off"
  /\ hpc = [c \in Conns |-> "none"]
  /\ wire = [c \in Conns |-> <<>>]
  /\ msg = [c \in Conns |-> ZeroMessage]
  /\ result = [c \in Conns |-> <<>>]
  /\ stats = [c \in Conns |-> <<>>]
  /\ io = [c \in Conns |-> <<>>]
  /\ dbcalls = [c \in Conns |-> <<>>]
  /\ cli = ClientOff
  /\ history = {}
  /\ imp = NoRun
  /\ prev = NoPrev
  /\ store \in StartupStores
  /\ boot = [BootOff EXCEPT !.pc = "new", !.run = 1]

\* New returns Database{}, err and ServerMode returns err, part_001:63-65.
NewFails(b) == [b EXCEPT !.pc = "returned", !.new = "error", !.server = "error"]

\* migrate returns err (without a Rollback) and New passes it on,
\* database.go:93-96.
MigrateFails(b) == NewFails([b EXCEPT !.migrate = "error"])

\* The variant of the step that runs its statements outside the transaction.
WrittenThrough(s, w) == w

\* What the file holds while the transaction has the working copy w: the
\* committed store s (tx.Exec, not d.Exec).
Uncommitted(s, w) == s

\* os.Stat(conf.DbFile), database.go:72-78.
NewStat ==
  /\ boot.pc = "new"
  /\ boot' = [boot EXCEPT !.pc = IF store.file THEN "migrate" ELSE "init",
                          !.before = store, !.stmt = 1]
  /\ UNCHANGED <<store, srv, hpc, wire>>
  /\ UNCHANGED startupRest

\* sql.Open fails: return Database{}, err; database.go:81-84.
NewOpenFail ==
  /\ boot.pc = "new"
  /\ boot' = NewFails([boot EXCEPT !.before = store])
  /\ UNCHANGED <<store, srv, hpc, wire>>
  /\ UNCHANGED startupRest

\* The next statement of initDB; on an error New closes the handle and
\* returns the error; database.go:87-91,138-147.
InitDBExec ==
  /\ boot.pc = "init"
  /\ \E env \in BOOLEAN :
       LET r == InitDBStmt(boot.stmt, store)
       IN  IF env /\ r.ok
             THEN /\ store' = r.s
                  /\ boot' = IF boot.stmt = InitDBLast
                               THEN [boot EXCEPT !.pc = "prepare"]
                               ELSE [boot EXCEPT !.stmt = @ + 1]
             ELSE /\ store' = store
                  /\ boot' = NewFails(boot)
  /\ UNCHANGED <<srv, hpc, wire>>
  /\ UNCHANGED startupRest

\* d.QueryRow(SELECT value FROM admin WHERE key LIKE "version").Scan(&version),
\* database.go:302-306.
MigrateRead ==
  /\ boot.pc = "migrate"
  /\ \E env \in BOOLEAN :
       boot' = IF env /\ "admin" \in store.tables /\ store.version # ""
                 THEN [boot EXCEPT !.pc = "switch", !.read = store.version]
                 ELSE MigrateFails(boot)
  /\ UNCHANGED <<store, srv, hpc, wire>>
  /\ UNCHANGED startupRest

\* case "1": tx, err := d.Begin(); database.go:309-313.
MigrateBegin ==
  /\ boot.pc = "switch" /\ boot.read = "1"
  /\ \E env \in BOOLEAN :
       boot' = IF env THEN [boot EXCEPT !.pc = "tx", !.tx = "open", !.work = store, !.stmt = 1]
               ELSE MigrateFails(boot)
  /\ UNCHANGED <<store, srv, hpc, wire>>
  /\ UNCHANGED startupRest

\* tx.Exec(stmt): the next of its statements; on an error return err;
\* database.go:314-332.
MigrateExec ==
  /\ boot.pc = "tx"
  /\ \E env \in BOOLEAN :
       LET r == MigrateStmt(boot.stmt, boot.work)
       IN  IF env /\ r.ok
             THEN /\ store' = Uncommitted(store, r.s)
                  /\ boot' = [boot EXCEPT !.work = r.s, !.stmt = @ + 1,
                                          !.pc = IF boot.stmt = MigrateLast THEN "update" ELSE "tx"]
             ELSE /\ store' = store
                  /\ boot' = MigrateFails(boot)
  /\ UNCHANGED <<srv, hpc, wire>>
  /\ UNCHANGED startupRest

\* tx.Exec(UPDATE admin SET value=? WHERE key LIKE 'version', VERSION),
\* database.go:333-335.
MigrateVersion ==
  /\ boot.pc = "update"
  /\ \E env \in BOOLEAN :
       LET r == MigrateStmt(MigrateUpdate, boot.work)
       IN  IF env /\ r.ok
             THEN /\ store' = Uncommitted(store, r.s)
                  /\ boot' = [boot EXCEPT !.work = r.s, !.pc = "commit"]
             ELSE /\ store' = store
                  /\ boot' = MigrateFails(boot)
  /\ UNCHANGED <<srv, hpc, wire>>
  /\ UNCHANGED startupRest

\* tx.Commit(); return nil; database.go:336-340.
MigrateCommit ==
  /\ boot.pc = "commit"
  /\ \E env \in BOOLEAN :
       IF env
         THEN /\ store' = boot.work
              /\ boot' = [boot EXCEPT !.pc = "prepare", !.tx = "committed", !.migrate = "nil"]
         ELSE /\ store' = store
              /\ boot' = MigrateFails(boot)
  /\ UNCHANGED <<srv, hpc, wire>>
  /\ UNCHANGED startupRest

\* The variant of case "2" that runs the version-1 step once more.
MigrateCurrentAgain ==
  /\ boot.pc = "switch" /\ boot.read # "1" /\ boot.read = VERSION
  /\ boot' = [boot EXCEPT !.pc = "tx", !.tx = "open", !.work = store, !.stmt = 1]
  /\ UNCHANGED <<store, srv, hpc, wire>>
  /\ UNCHANGED startupRest

\* case "2", then version == VERSION: return nil; database.go:341-349.
MigrateCurrent ==
  /\ boot.pc = "switch" /\ boot.read # "1" /\ boot.read = VERSION
  /\ boot' = [boot EXCEPT !.pc = "prepare", !.migrate = "nil"]
  /\ UNCHANGED <<store, srv, hpc, wire>>
  /\ UNCHANGED startupRest

\* The variant of migrate without the check of database.go:345-347.
MigrateUnknownAccepted ==
  /\ boot.pc = "switch" /\ boot.read # "1" /\ boot.read # VERSION
  /\ boot' = [boot EXCEPT !.pc = "prepare", !.migrate = "nil"]
  /\ UNCHANGED <<store, srv, hpc, wire>>
  /\ UNCHANGED startupRest

\* No case matches and version != VERSION: return errors.New(...);
\* database.go:345-347.
MigrateUnknown ==
  /\ boot.pc = "switch" /\ boot.read # "1" /\ boot.read # VERSION
  /\ boot' = MigrateFails(boot)
  /\ UNCHANGED <<store, srv, hpc, wire>>
  /\ UNCHANGED startupRest

\* db.Prepare(INSERT INTO history ...); return Database{db, stmts}, nil;
\* database.go:99-109.
NewPrepare ==
  /\ boot.pc = "prepare"
  /\ \E env \in BOOLEAN :
       boot' = IF env THEN [boot EXCEPT !.pc = "listen", !.new = "nil"] ELSE NewFails(boot)
  /\ UNCHANGED <<store, srv, hpc, wire>>
  /\ UNCHANGED startupRest

\* s, err := net.Listen("tcp", conf.Address), part_001:68-72.
Listen ==
  /\ boot.pc = "listen"
  /\ \E env \in BOOLEAN :
       IF env
         THEN /\ srv' = "listening"
              /\ boot' = [boot EXCEPT !.pc = "serving"]
         ELSE /\ srv' = srv
              /\ boot' = [boot EXCEPT !.pc = "returned", !.server = "error"]
  /\ UNCHANGED <<store, hpc, wire>>
  /\ UNCHANGED startupRest

\* The accept loop, part_001:74-85.
StartupAccept(c) ==
  /\ boot.pc = "serving"
  /\ Alive
  /\ hpc[c] = "none"
  /\ \A b \in Conns : b < c => hpc[b] # "none"
  /\ hpc' = [hpc EXCEPT ![c] = "recv"]
  /\ UNCHANGED <<store, boot, srv, wire>>
  /\ UNCHANGED startupRest

\* The process is over (ServerMode returned, or the server was stopped) and
\* is started again on the same file; a transaction left open is gone.
Restart ==
  /\ boot.pc \in {"returned", "serving"}
  /\ boot.run < MaxBoots
  /\ boot' = [BootOff EXCEPT !.pc = "new", !.run = boot.run + 1,
                             !.migrated = boot.migrated \/ boot.tx = "committed"]
  /\ srv' = "off"
  /\ hpc' = [c \in Conns |-> "none"]
  /\ wire' = [c \in Conns |-> <<>>]
  /\ UNCHANGED store
  /\ UNCHANGED startupRest

StartupNext ==
  \/ NewStat
  \/ NewOpenFail
  \/ InitDBExec
  \/ MigrateRead
  \/ MigrateBegin
  \/ MigrateExec
  \/ MigrateVersion
  \/ MigrateCommit
  \/ MigrateCurrent
  \/ MigrateUnknown
  \/ NewPrepare
  \/ Listen
  \/ \E c \in Conns : StartupAccept(c)
  \/ Restart

SpecStartup == StartupInit /\ [][StartupNext]_vars

\* The store the version-1 step makes of store s when all its statements
\* and the version update take effect.
RECURSIVE MigratedFrom(_, _)
MigratedFrom(s, k) ==
  IF k > MigrateUpdate THEN s ELSE MigratedFrom(MigrateStmt(k, s).s, k + 1)

\* migrate has returned in this run, having read version v.
MigrateReturned(v) == boot.read = v /\ boot.migrate # "none"

(***************************************************************************)
(* C14. After migrate has succeeded on a version-1 file with N connlog     *)
(* rows, the version record is VERSION and table connections yields        *)
(* exactly those N rows (datetime, remote), each with a NULL reverse        *)
(* (until the accept loop logs further connections).                       *)
(***************************************************************************)
MigrationKeepsConnlog ==
  (MigrateReturned("1") /\ boot.migrate = "nil" /\ boot.pc # "serving") =>
    /\ store.version = VERSION
    /\ Connections(store) =
         { [datetime |-> r.datetime, remote |-> r.remote, reverse |-> NULL] :
             r \in boot.before.connlog }
    /\ Cardinality(Connections(store)) = Cardinality(boot.before.connlog)
    /\ store.connlog = {LogEntry(r) : r \in boot.before.connlog}

MigrationKeepsConnlogWitness ==
  /\ MigrateReturned("1") /\ boot.migrate = "nil"
  /\ Cardinality(boot.before.connlog) = MaxConnlog
  /\ Cardinality(Connections(store)) = MaxConnlog

(***************************************************************************)
(* C15. Once migrate has returned from the version-1 step, with or without *)
(* an error at whichever statement, the file holds either all of the       *)
(* step's schema changes together with the new version record, or the      *)
(* version-1 store it held before, and nothing in between.                 *)
(***************************************************************************)
MigrationAtomic ==
  boot.read = "1" =>
    /\ store = boot.before \/ store = MigratedFrom(boot.before, 1)
    /\ boot.migrate = "nil" => store = MigratedFrom(boot.before, 1)
    /\ boot.migrate = "error" => (store = boot.before /\ store.version = "1")

MigrationAtomicWitness ==
  /\ boot.read = "1" /\ boot.migrate = "error"
  /\ boot.stmt = 4 /\ boot.tx = "open"
  /\ boot.work # boot.before /\ "connlog" \notin boot.work.tables
  /\ boot.before.connlog # {}

(***************************************************************************)
(* C16. migrate on a file whose version record is VERSION returns nil and  *)
(* leaves the schema, the version record and the tables as they were; so   *)
(* does every run after a run that migrated the file.                      *)
(***************************************************************************)
MigrateCurrentIsNoOp ==
  /\ MigrateReturned(VERSION) => (boot.migrate = "nil" /\ store = boot.before /\ history = {})
  /\ (boot.migrated /\ boot.run > 1 /\ boot.read # "") => boot.read = VERSION

MigrateCurrentIsNoOpWitness ==
  /\ boot.migrated /\ boot.run = 2 /\ MigrateReturned(VERSION)
  /\ boot.migrate = "nil" /\ store.view = MigrateView /\ store.connlog # {}

(***************************************************************************)
(* C17. When the file's version is neither VERSION nor "1", or initDB or   *)
(* migrate fails, New returns an error and ServerMode returns without      *)
(* listening or accepting; a connection is accepted only on a file whose   *)
(* version record is VERSION.                                              *)
(***************************************************************************)
StartupGate ==
  /\ (boot.migrate # "none" /\ boot.read \notin {"1", VERSION}) => boot.new = "error"
  /\ boot.migrate = "error" => boot.new = "error"
  /\ boot.new = "error" =>
       (boot.server = "error" /\ srv # "listening" /\ \A c \in Conns : hpc[c] = "none")
  /\ srv = "listening" => boot.new = "nil"
  /\ (\E c \in Conns : hpc[c] # "none") => (srv = "listening" /\ store.version = VERSION)

StartupGateWitness ==
  /\ boot.read = "3" /\ boot.pc = "returned" /\ boot.new = "error"
  /\ boot.server = "error" /\ srv = "off"

(***************************************************************************)
(* One query operation called on a store with some history in it.          *)
(***************************************************************************)
QueryUsers == {"u1", "U1", "u2"}

QueryHosts == {"h1"}

QueryCommands == {0, 1, 2}

QueryTimes == {1, 2}

UserPatterns == {"%", "u1", "u2", "u3", "u_"}

HostPatterns == {"%", "h1", "h2"}

Kappas == {1, 2}

QueryRows ==
  { [user |-> u, host |-> h, command |-> c, datetime |-> d] :
      u \in QueryUsers, h \in QueryHosts, c \in QueryCommands, d \in QueryTimes }

\* The sets of at most n rows of S that respect the primary key.
RECURSIVE TablesUpTo(_, _)
TablesUpTo(S, n) ==
  IF n = 0 THEN {{}}
  ELSE LET smaller == TablesUpTo(S, n - 1)
       IN  smaller \cup
             UNION { { T \cup {x} : x \in {y \in S : \A r \in T : ~SameKey(r, y)} } :
                     T \in smaller }

queryRest ==
  <<cdc, srv, hpc, wire, msg, result, stats, io, dbcalls, imp, prev, cli, jobs, lock,
    store, boot, history, tasks>>

QueryInit ==
  /\ jobs = [c \in Conns |-> NoJob]
  /\ lock = 0
  /\ store = NoStore
  /\ boot = BootOff
  /\ qry = NoQuery
  /\ tasks = NoTasks
  /\ cdc = CodecIdle
  /\ srv = "off"
  /\ hpc = [c \in Conns |-> "none"]
  /\ wire = [c \in Conns |-> <<>>]
  /\ msg = [c \in Conns |-> ZeroMessage]
  /\ result = [c \in Conns |-> <<>>]
  /\ stats = [c \in Conns |-> <<>>]
  /\ io = [c \in Conns |-> <<>>]
  /\ dbcalls = [c \in Conns |-> <<>>]
  /\ cli = ClientOff
  /\ imp = NoRun
  /\ prev = NoPrev
  /\ history \in TablesUpTo(QueryRows, MaxRows)

\* db.TopK(k): the text and a nil error, or on a failed query the header
\* and the error; database.go:236-250.
QueryTopK ==
  /\ qry.op = "none"
  /\ \E k \in Kappas, ok \in BOOLEAN :
       IF ok
         THEN \E out \in TopK(history, k) :
                qry' = [NoQuery EXCEPT !.op = "TopK", !.k = k, !.out = out, !.err = "nil"]
         ELSE qry' = [NoQuery EXCEPT !.op = "TopK", !.k = k, !.out = <<TopHeader, k>>,
                                     !.err = "error"]
  /\ UNCHANGED queryRest

\* db.LastK(k): the text and a nil error, also when the query failed
\* (return result, nil); database.go:253-267.
QueryLastK ==
  /\ qry.op = "none"
  /\ \E k \in Kappas :
       \E out \in LastK(history, k) \cup {<<LastHeader, k>>} :
         qry' = [NoQuery EXCEPT !.op = "LastK", !.k = k, !.out = out, !.err = "nil"]
  /\ UNCHANGED queryRest

\* db.Restore(user, hostname), database.go:353-370.
QueryRestore ==
  /\ qry.op = "none"
  /\ \E user \in UserPatterns, host \in HostPatterns, ok \in BOOLEAN :
       IF ok
         THEN \E r \in Restore(history, user, host) :
                qry' = [NoQuery EXCEPT !.op = "Restore", !.user = user, !.host = host,
                                       !.rows = r.rows, !.out = r.out, !.err = "nil"]
         ELSE qry' = [NoQuery EXCEPT !.op = "Restore", !.user = user, !.host = host,
                                     !.err = "error"]
  /\ UNCHANGED queryRest

\* db.RunQuery(params) with the command pattern "%".
QueryRun ==
  /\ qry.op = "none"
  /\ \E user \in {"%", "u1", "u2", "u3"}, k \in Kappas :
       \E out \in RunQuery(history, [User |-> user, Host |-> "%", Command |-> "%", Kappa |-> k]) :
         qry' = [NoQuery EXCEPT !.op = "RunQuery", !.user = user, !.host = "%", !.k = k,
                                !.out = out, !.err = "nil"]
  /\ UNCHANGED queryRest

QueryNext ==
  \/ QueryTopK
  \/ QueryLastK
  \/ QueryRestore
  \/ QueryRun

SpecQuery == QueryInit /\ [][QueryNext]_vars

\* The rows of a rendered list: after skip header tokens, every row is a
\* newline and two fields.
Entries(out, skip) ==
  [n \in 1..((Len(out) - skip) \div 3) |-> <<out[skip + 3 * n - 1], out[skip + 3 * n]>>]

\* The first fields of the rows of list e do not increase.
NonIncreasing(e) == \A i, j \in DOMAIN e : i < j => e[i][1] >= e[j][1]

Min(a, b) == IF a < b THEN a ELSE b

Occurrences(command) == Cardinality({r \in history : r.command = command})

RecordText(r) == <<Hash, EpochOf(r.datetime), Newline>> \o CommandText(r.command)

\* The record texts of the rows of s with one newline between neighbours.
RECURSIVE Joined(_)
Joined(s) ==
  IF Len(s) = 0 THEN <<>>
  ELSE IF Len(s) = 1 THEN RecordText(Head(s))
  ELSE RecordText(Head(s)) \o <<Newline>> \o Joined(Tail(s))

EndsInNewline(out) == Len(out) > 0 /\ out[Len(out)] = Newline

HasBlankLine(out) == \E i \in 1..(Len(out) - 1) : out[i] = Newline /\ out[i + 1] = Newline

Restored == qry.op = "Restore" /\ qry.err = "nil"

(***************************************************************************)
(* C19 as claimed. Restore returns, for the matching records, "#<epoch>"   *)
(* and the command text on two lines per record, one newline between       *)
(* records, no newline at the end and no blank line; one record renders    *)
(* as "#E\nc", no record as the empty text without an error.               *)
(***************************************************************************)
RestoreFormat ==
  Restored =>
    /\ qry.out = Joined(qry.rows)
    /\ ~EndsInNewline(qry.out)
    /\ ~HasBlankLine(qry.out)
    /\ Len(qry.rows) = 1 => qry.out = RecordText(qry.rows[1])
    /\ Len(qry.rows) = 0 => qry.out = <<>>

(***************************************************************************)
(* C19 as amended. Restore returns, for the matching records, "#<epoch>"   *)
(* and the command text on two lines per record with one newline between   *)
(* records and none after the last command text; one record renders as     *)
(* "#E\nc", no record as the empty text without an error; when no matching *)
(* record has an empty command text, the text neither ends in a newline    *)
(* nor holds a blank line.                                                 *)
(***************************************************************************)
RestoreFormatOfTexts ==
  Restored =>
    /\ qry.out = Joined(qry.rows)
    /\ Len(qry.rows) = 1 => qry.out = RecordText(qry.rows[1])
    /\ Len(qry.rows) = 0 => qry.out = <<>>
    /\ (\A n \in DOMAIN qry.rows : qry.rows[n].command # 0) =>
         (~EndsInNewline(qry.out) /\ ~HasBlankLine(qry.out))

RestoreFormatOfTextsWitness ==
  /\ Restored /\ qry.user = "u2" /\ Len(qry.rows) = MaxRows
  /\ \A n \in DOMAIN qry.rows : qry.rows[n].command # 0
  /\ Len(qry.out) = 5 * MaxRows - 1

\* handleConn(c) calls db.AddFromBuffer in this step.
Imports(c) ==
  /\ hpc[c] = "dispatch" /\ msg[c].Type = HISTORY
  /\ dbcalls'[c] = Append(dbcalls[c], "AddFromBuffer")

\* handleConn(c) gets the result of a query on a table without a matching
\* row in this step: the header alone, or the empty list.
EmptyAnswer(c) ==
  /\ (hpc[c] = "dispatch" /\ hpc'[c] = "stats" /\ history = {}) =>
       stats'[c] = <<TopHeader, StatsTopKappa>>
  /\ (hpc[c] = "stats" /\ hpc'[c] = "reply" /\ history = {}) =>
       stats'[c] = stats[c] \o <<Newline, Newline, LastHeader, StatsLastKappa>>
  /\ (hpc[c] = "dispatch" /\ msg[c].Type = QUERY /\ hpc'[c] = "reply"
        /\ \A r \in history : r.user # msg[c].QParams.User) =>
       result'[c] = <<>>

LookupIPs == {<<"1", "0">>, <<"1", "1">>}

\* What net.LookupAddr may return for one address at different times.
ReverseNames == {"a.example", "b.example"}

lookupRest ==
  <<cdc, srv, hpc, wire, msg, result, stats, io, dbcalls, history, imp, prev, cli,
    jobs, lock, boot, qry>>

\* The file initDB has created: rlookup.ip is the primary key.
LookupInit ==
  /\ tasks = NoTasks
  /\ store = V2Store(VERSION, {}, {}, InitDBView)
  /\ jobs = [c \in Conns |-> NoJob]
  /\ lock = 0
  /\ boot = BootOff
  /\ qry = NoQuery
  /\ cdc = CodecIdle
  /\ srv = "listening"
  /\ hpc = [c \in Conns |-> "none"]
  /\ wire = [c \in Conns |-> <<>>]
  /\ msg = [c \in Conns |-> ZeroMessage]
  /\ result = [c \in Conns |-> <<>>]
  /\ stats = [c \in Conns |-> <<>>]
  /\ io = [c \in Conns |-> <<>>]
  /\ dbcalls = [c \in Conns |-> <<>>]
  /\ cli = ClientOff
  /\ history = {}
  /\ imp = NoRun
  /\ prev = NoPrev

\* The rows of rlookup the goroutine's SELECT ip FROM rlookup WHERE ip LIKE ?
\* finds; database.go:283.
LookupHits(ip) == {r \in store.rlookup : LikeMatch(r.ip, ip)}

\* INSERT INTO rlookup(ip, reverse) VALUES(?, ?) on a table whose primary
\* key is ip: a second row for the address is refused; database.go:286-288.
InsertRlookup(table, row) ==
  IF \E r \in table : r.ip = row.ip THEN table ELSE table \cup {row}

\* INSERT INTO connlog VALUES (?, ?) succeeds, go func() starts and LogConn
\* returns its named err, which nothing has assigned; database.go:273-296.
LogConn(c) ==
  /\ tasks.t[c].pc = "none"
  /\ \A b \in Conns : b < c => tasks.t[b].pc # "none"
  /\ \E ip \in LookupIPs :
       /\ store' = [store EXCEPT !.connlog =
                      @ \cup {[datetime |-> Cardinality(@) + 1, remote |-> ip]}]
       /\ tasks' = [tasks EXCEPT !.t[c] = [NoTask EXCEPT !.pc = "select", !.ip = ip,
                                                         !.ret = "nil"]]
  /\ UNCHANGED lookupRest

\* The INSERT INTO connlog fails (two accepts with the same time.Now(), the
\* primary key): no goroutine, and LogConn still returns nil;
\* database.go:278-279,296.
LogConnFail(c) ==
  /\ tasks.t[c].pc = "none"
  /\ \A b \in Conns : b < c => tasks.t[b].pc # "none"
  /\ store.connlog # {}
  /\ tasks' = [tasks EXCEPT !.t[c] = [NoTask EXCEPT !.pc = "done", !.ret = "nil"]]
  /\ UNCHANGED store
  /\ UNCHANGED lookupRest

\* err = d.QueryRow(...).Scan(&rip) finds the address; database.go:283-284.
LookupFound(c) ==
  /\ tasks.t[c].pc = "select"
  /\ LookupHits(tasks.t[c].ip) # {}
  /\ tasks' = [tasks EXCEPT !.t[c].pc = "done", !.t[c].err = "nil"]
  /\ UNCHANGED store
  /\ UNCHANGED lookupRest

\* ... or finds no row: err == sql.ErrNoRows; database.go:283-284.
LookupNoRows(c) ==
  /\ tasks.t[c].pc = "select"
  /\ LookupHits(tasks.t[c].ip) = {}
  /\ tasks' = [tasks EXCEPT !.t[c].pc = "lookup", !.t[c].err = "ErrNoRows"]
  /\ UNCHANGED store
  /\ UNCHANGED lookupRest

\* net.LookupAddr(ip) answers; database.go:285.
LookupAddr(c) ==
  /\ tasks.t[c].pc = "lookup"
  /\ \E name \in ReverseNames : tasks' = [tasks EXCEPT !.t[c].pc = "insert", !.t[c].addr = name]
  /\ UNCHANGED store
  /\ UNCHANGED lookupRest

\* net.LookupAddr(ip) fails: its err is local to the if statement, the
\* goroutine logs the ErrNoRows it still holds; database.go:285,290-292.
LookupAddrFail(c) ==
  /\ tasks.t[c].pc = "lookup"
  /\ tasks' = [tasks EXCEPT !.t[c].pc = "done"]
  /\ UNCHANGED store
  /\ UNCHANGED lookupRest

\* _, err = d.Exec(INSERT INTO rlookup ...): the result goes to the err of
\* the inner if, so the goroutine logs ErrNoRows whether the row was stored
\* or refused; database.go:286-292.
LookupInsert(c) ==
  /\ tasks.t[c].pc = "insert"
  /\ LET row == [ip |-> tasks.t[c].ip, reverse |-> tasks.t[c].addr]
     IN  /\ store' = [store EXCEPT !.rlookup = InsertRlookup(@, row)]
         /\ tasks' = [tasks EXCEPT !.t[c].pc = "done", !.writes = Append(@, row)]
  /\ UNCHANGED lookupRest

LookupNext ==
  \/ \E c \in Conns : LogConn(c)
  \/ \E c \in Conns : LogConnFail(c)
  \/ \E c \in Conns : LookupFound(c)
  \/ \E c \in Conns : LookupNoRows(c)
  \/ \E c \in Conns : LookupAddr(c)
  \/ \E c \in Conns : LookupAddrFail(c)
  \/ \E c \in Conns : LookupInsert(c)

SpecLookup == LookupInit /\ [][LookupNext]_vars

\* The row the last INSERT INTO rlookup for address ip carried.
LastWrite(ip) ==
  LET at == {n \in DOMAIN tasks.writes : tasks.writes[n].ip = ip}
  IN  tasks.writes[CHOOSE n \in at : \A k \in at : k <= n]

(***************************************************************************)
(* C21. When the reverse-lookup goroutines of connections from one address *)
(* run at the same time: every LogConn call returns nil to the accept      *)
(* loop, rlookup holds at most one row per address, and once the           *)
(* goroutines are over, the row of an address some goroutine wrote holds   *)
(* the value of the last write for that address.                           *)
(***************************************************************************)
LastWriteWins ==
  /\ \A c \in Conns : tasks.t[c].pc # "none" => tasks.t[c].ret = "nil"
  /\ \A r1, r2 \in store.rlookup : r1.ip = r2.ip => r1 = r2
  /\ (\A c \in Conns : tasks.t[c].pc = "done") =>
       \A n \in DOMAIN tasks.writes : LastWrite(tasks.writes[n].ip) \in store.rlookup

\* The store initDB makes of store s when all its statements take effect.
RECURSIVE InitialisedFrom(_, _)
InitialisedFrom(s, k) ==
  IF k > InitDBLast THEN s ELSE InitialisedFrom(InitDBStmt(k, s).s, k + 1)

\* The file initDB creates, and the file migrate makes of a version-1
\* file, each holding the given rows of connlog and rlookup.
FreshStore(connlog, rlookup) ==
  [InitialisedFrom(NoStore, 1) EXCEPT !.connlog = connlog, !.rlookup = rlookup]

MigratedStore(connlog, rlookup) ==
  [MigratedFrom(V1Store({}), 1) EXCEPT !.connlog = connlog, !.rlookup = rlookup]

(***************************************************************************)
(* C22. A file created at the current version by initDB and a file brought *)
(* to it by migrate from version 1 are equivalent: with the connlog and    *)
(* rlookup rows of any file at the current version, table connections      *)
(* yields the same rows in both; a connlog row without an rlookup row is   *)
(* in both or in neither.                                                  *)
(***************************************************************************)
FreshAndMigratedAgree ==
  (store.file /\ store.version = VERSION /\ "rlookup" \in store.tables) =>
    LET fresh == FreshStore(store.connlog, store.rlookup)
        migrated == MigratedStore(store.connlog, store.rlookup)
    IN  /\ fresh.tables = migrated.tables
        /\ fresh.version = migrated.version
        /\ Connections(fresh) = Connections(migrated)

(***************************************************************************)
(* AddFromBuffer on a reader that can fail.  handleConn reads the payload  *)
(* from memory (part_001:162), where ReadString ends with io.EOF only; the *)
(* method takes any *bufio.Reader and has a branch of its own for the      *)
(* other errors, database.go:186-194.                                      *)
(***************************************************************************)

\* ReadString returns an error other than io.EOF: total++;
\* return "", errors.New("Error while reading stdin: ..."); database.go:187-193.
\* Nothing ends tx: its rows stay uncommitted and it keeps the write lock.
ImportReadFail(c) ==
  /\ InLoop(c)
  /\ jobs' = [jobs EXCEPT ![c].pc = "done", ![c].err = "read", ![c].total = @ + 1]
  /\ UNCHANGED <<lock, history>>
  /\ UNCHANGED concurrentRest

ReaderNext ==
  \/ \E c \in Conns : ImportBegin(c)
  \/ \E c \in Conns : ImportCommit(c)
  \/ \E c \in Conns : ImportSkip(c)
  \/ \E c \in Conns : ImportParseFail(c)
  \/ \E c \in Conns : ImportInsert(c)
  \/ \E c \in Conns : ImportDuplicate(c)
  \/ \E c \in Conns : ImportBusy(c)
  \/ \E c \in Conns : ImportReadFail(c)

SpecReader == ConcurrentInit /\ [][ReaderNext]_vars

(***************************************************************************)
(* C23. AddFromBuffer never returns with its transaction open: after a     *)
(* normal end, a timestamp that does not parse, a read error, a duplicate  *)
(* key or any other insert failure, the transaction it began is committed  *)
(* or rolled back, it keeps no uncommitted row and it does not hold the    *)
(* write lock of the shared handle against later operations.               *)
(***************************************************************************)
NoTransactionLeftOpen ==
  \A c \in Conns :
    jobs[c].pc = "done" =>
      /\ jobs[c].tx \in {"committed", "rolledback"}
      /\ jobs[c].rows = {}
      /\ lock # c
====
